---- MODULE Spec2Model ----
(***************************************************************************)
(* Managed-resource reconciliation core of provider-runtime.               *)
(*                                                                         *)
(* One managed object lives on the API server (srv).  The host delivers    *)
(* one Reconcile at a time for its key; a Reconcile works on a private     *)
(* copy (mg) and is modelled step by step, one action per API call or      *)
(* external-client call, so that users and operators can write the object  *)
(* between two steps.  The API server refuses a write made from a stale    *)
(* copy with a conflict.                                                   *)
(***************************************************************************)
EXTENDS Integers, Sequences, FiniteSets, TLC

(***************************************************************************)
(* Bounds of the model.  Time is counted in ticks.                         *)
(***************************************************************************)
TicksPerSecond == 2
MaxTime == 5
GracePeriod == 2
MaxUserWrites == 1
\* The longest delay the limiter of the dispatcher answers.
MaxAnswer == 2
\* The exponential limiter: the width of a Duration in bits (64 in the
\* source; the model keeps the overflow of the conversion at a narrower
\* width), and the last tick of its clock.
DurationBits == 6
MaxClock == 16
\* The longest list of finalizers the functions of pkg/meta are called on.
MaxFinalizers == 3

(***************************************************************************)
(* Program constants.                                                      *)
(***************************************************************************)
FinalizerName == "finalizer.managedresource.krateo.io"
OtherFinalizer == "foregroundDeletion"

AnnotationKeyExternalCreatePending == "krateo.io/external-create-pending"
AnnotationKeyExternalCreateSucceeded == "krateo.io/external-create-succeeded"
AnnotationKeyExternalCreateFailed == "krateo.io/external-create-failed"
AnnotationKeyReconciliationPaused == "krateo.io/paused"
AnnotationKeyManagementPolicy == "krateo.io/management-policy"

ManagementPolicyDefault == "default"
ManagementPolicyObserveCreateUpdate == "observe-create-update"
ManagementPolicyObserveDelete == "observe-delete"
ManagementPolicyObserve == "observe"

ActionCreate == "create"
ActionUpdate == "update"
ActionDelete == "delete"

errCreateIncomplete ==
    "cannot determine creation result - remove the " \o AnnotationKeyExternalCreatePending
        \o " annotation if it is safe to proceed"
errReconcileConnect == "connect failed"
errReconcileObserve == "observe failed"
errReconcileCreate == "create failed"
errReconcileUpdate == "update failed"
errReconcileDelete == "delete failed"
errUpdateManaged == "cannot update managed resource"
errUpdateManagedAnnotations == "cannot update managed resource annotations"
errUpdateManagedStatus == "cannot update managed resource status"
errGetManaged == "cannot get managed resource"
errUpdateCriticalAnnotations == "cannot update critical annotations"
errUpdateObject == "cannot update object"

\* defaultpollInterval, in seconds.
defaultpollInterval == 60

\* retry.DefaultRetry.Steps: the attempts of the critical-annotation updater.
RetrySteps == 5

(***************************************************************************)
(* Time and its RFC3339 text.  A time is a number of ticks; the zero time  *)
(* is 0.  RFC3339 text keeps whole seconds only.                           *)
(***************************************************************************)
ZeroTime == 0

RFC3339Format(t) == ToString(t \div TicksPerSecond)

RFC3339Parse(s) ==
    IF \E n \in 0..MaxTime : ToString(n) = s
    THEN (CHOOSE n \in 0..MaxTime : ToString(n) = s) * TicksPerSecond
    ELSE ZeroTime

(***************************************************************************)
(* pkg/meta: annotations.  An annotation map is a function on the keys it  *)
(* holds; reading a key it does not hold yields the empty string.          *)
(***************************************************************************)
NoAnnotations == [k \in {} |-> ""]

GetAnnotation(a, k) == IF k \in DOMAIN a THEN a[k] ELSE ""

\* AddAnnotations that keeps the value of a key the object already has.
AddAnnotationsKeepingStored(a, m) ==
    [k \in (DOMAIN a) \cup (DOMAIN m) |-> IF k \in DOMAIN a THEN a[k] ELSE m[k]]

AddAnnotations(a, m) ==
    [k \in (DOMAIN a) \cup (DOMAIN m) |-> IF k \in DOMAIN m THEN m[k] ELSE a[k]]

\* RemoveAnnotations that deletes nothing.
RemoveAnnotationsKeeps(a, ks) == a

RemoveAnnotations(a, ks) == [k \in (DOMAIN a) \ ks |-> a[k]]

OneAnnotation(key, v) == [k \in {key} |-> v]

GetExternalCreatePending(a) == RFC3339Parse(GetAnnotation(a, AnnotationKeyExternalCreatePending))

SetExternalCreatePending(a, t) ==
    AddAnnotations(a, OneAnnotation(AnnotationKeyExternalCreatePending, RFC3339Format(t)))

GetExternalCreateSucceeded(a) == RFC3339Parse(GetAnnotation(a, AnnotationKeyExternalCreateSucceeded))

SetExternalCreateSucceeded(a, t) ==
    AddAnnotations(a, OneAnnotation(AnnotationKeyExternalCreateSucceeded, RFC3339Format(t)))

GetExternalCreateFailed(a) == RFC3339Parse(GetAnnotation(a, AnnotationKeyExternalCreateFailed))

SetExternalCreateFailed(a, t) ==
    AddAnnotations(a, OneAnnotation(AnnotationKeyExternalCreateFailed, RFC3339Format(t)))

\* ExternalCreateIncomplete with a pending time that equals the latest
\* result counted as incomplete.
ExternalCreateIncompleteOrEqual(a) ==
    LET pending == GetExternalCreatePending(a)
        succeeded == GetExternalCreateSucceeded(a)
        failed == GetExternalCreateFailed(a)
        latest == IF failed > succeeded THEN failed ELSE succeeded
    IN  IF pending = ZeroTime THEN FALSE ELSE pending >= latest

ExternalCreateIncomplete(a) ==
    LET pending == GetExternalCreatePending(a)
        succeeded == GetExternalCreateSucceeded(a)
        failed == GetExternalCreateFailed(a)
        latest == IF failed > succeeded THEN failed ELSE succeeded
    IN  IF pending = ZeroTime THEN FALSE ELSE pending > latest

\* ExternalCreateSucceededDuring with the comparison turned round.
ExternalCreateSucceededAfter(a, d, clock) ==
    LET t == GetExternalCreateSucceeded(a)
    IN  IF t = ZeroTime THEN FALSE ELSE d < clock - t

ExternalCreateSucceededDuring(a, d, clock) ==
    LET t == GetExternalCreateSucceeded(a)
    IN  IF t = ZeroTime THEN FALSE ELSE clock - t < d

IsPaused(a) == GetAnnotation(a, AnnotationKeyReconciliationPaused) = "true"

\* IsActionAllowed with the update action left out of the first test, so that
\* an update is judged by the delete rule.
IsActionAllowedCreateOnly(a, action) ==
    LET v == GetAnnotation(a, AnnotationKeyManagementPolicy)
        p == IF v = "" THEN ManagementPolicyDefault ELSE v
    IN  IF action = ActionCreate
        THEN p = ManagementPolicyDefault \/ p = ManagementPolicyObserveCreateUpdate
        ELSE p = ManagementPolicyDefault \/ p = ManagementPolicyObserveDelete

\* IsActionAllowed without the default for an annotation that is absent or
\* empty.
IsActionAllowedNoDefault(a, action) ==
    LET p == GetAnnotation(a, AnnotationKeyManagementPolicy)
    IN  IF action = ActionCreate \/ action = ActionUpdate
        THEN p = ManagementPolicyDefault \/ p = ManagementPolicyObserveCreateUpdate
        ELSE p = ManagementPolicyDefault \/ p = ManagementPolicyObserveDelete

IsActionAllowed(a, action) ==
    LET p0 == GetAnnotation(a, AnnotationKeyManagementPolicy)
        p == IF p0 = "" THEN ManagementPolicyDefault ELSE p0
    IN  IF action = ActionCreate \/ action = ActionUpdate
        THEN p = ManagementPolicyDefault \/ p = ManagementPolicyObserveCreateUpdate
        ELSE p = ManagementPolicyDefault \/ p = ManagementPolicyObserveDelete

ShouldCreate(a) == IsActionAllowed(a, ActionCreate)

ShouldUpdate(a) == IsActionAllowed(a, ActionUpdate)

ShouldDelete(a) == IsActionAllowed(a, ActionDelete)

ShouldOnlyObserve(a) ==
    GetAnnotation(a, AnnotationKeyManagementPolicy) = ManagementPolicyObserve

(***************************************************************************)
(* pkg/meta: finalizers.  RemoveFinalizer deletes in place while it ranges *)
(* over the slice it was given: arr is the backing array, len the current  *)
(* length of f, i the index of the range (0-based in the code, 1-based     *)
(* here).  Slicing f[i+1:] beyond len(f) panics.                           *)
(***************************************************************************)
FinalizerExists(f, finalizer) == \E i \in 1..Len(f) : f[i] = finalizer

MetaAddFinalizer(f, finalizer) ==
    IF FinalizerExists(f, finalizer) THEN f ELSE Append(f, finalizer)

RECURSIVE RemoveFinalizerLoop(_, _, _, _)
RemoveFinalizerLoop(arr, len, i, finalizer) ==
    IF i > Len(arr)
    THEN [panic |-> FALSE, f |-> SubSeq(arr, 1, len)]
    ELSE IF arr[i] # finalizer
         THEN RemoveFinalizerLoop(arr, len, i + 1, finalizer)
         ELSE IF i > len
              THEN [panic |-> TRUE, f |-> SubSeq(arr, 1, len)]
              ELSE RemoveFinalizerLoop(
                       [j \in 1..Len(arr) |->
                           IF j >= i /\ j < len THEN arr[j + 1] ELSE arr[j]],
                       len - 1, i + 1, finalizer)

MetaRemoveFinalizer(f, finalizer) == RemoveFinalizerLoop(f, Len(f), 1, finalizer)

(***************************************************************************)
(* Conditions.  SetConditions upserts by condition type.                   *)
(***************************************************************************)
NoCondition == [reason |-> "", msg |-> ""]
NoConditions == [Synced |-> NoCondition, Ready |-> NoCondition]

Creating == [reason |-> "Creating", msg |-> ""]
Deleting == [reason |-> "Deleting", msg |-> ""]
ReconcileSuccess == [reason |-> "ReconcileSuccess", msg |-> ""]
ReconcilePaused == [reason |-> "ReconcilePaused", msg |-> ""]
ReconcileError(m) == [reason |-> "ReconcileError", msg |-> m]

SetConditions(c, upd) ==
    [Synced |-> IF "Synced" \in DOMAIN upd THEN upd.Synced ELSE c.Synced,
     Ready |-> IF "Ready" \in DOMAIN upd THEN upd.Ready ELSE c.Ready]

(***************************************************************************)
(* State.                                                                  *)
(*   now        the wall clock, in ticks                                   *)
(*   srv        the managed object as the API server stores it             *)
(*   mg         the Reconcile's own copy of the object                     *)
(*   entry      mg as Get returned it at the start of the current pass     *)
(*   stale      the server object was written by someone else since mg     *)
(*              was read or written: the next write from mg conflicts      *)
(*   pc         the position of the current Reconcile                      *)
(*   obs        the ExternalObservation of the current pass                *)
(*   connected  Connect returned a client: Disconnect is deferred          *)
(*   ret        the Result a pending status update will return with        *)
(*   result     the Result and error the last Reconcile returned           *)
(*   calls      the calls the current pass has made, in order              *)
(*   captured   the annotations UpdateCriticalAnnotations captured         *)
(*   tries      the attempts UpdateCriticalAnnotations has made            *)
(*   writes     the writes users and operators have made                   *)
(***************************************************************************)
VARIABLES now, srv, mg, entry, stale, pc, obs, connected, ret, result, calls,
          captured, tries, writes

(***************************************************************************)
(* The state of the rate-limiting dispatcher (pkg/ratelimiter) and of the  *)
(* exponential timed failure rate limiter:                                 *)
(*   limited    the dispatcher's set of items that were answered a delay   *)
(*   caller     per concurrent Reconcile call of the dispatcher: its       *)
(*              position, request, locals, result and the calls it made    *)
(*   failures   the limiter's map from item to FailureRequest              *)
(*   lclock     the limiter's clock (time.Now)                             *)
(*   lhist      per item, the delays When has returned, the time of the    *)
(*              last call, and whether two calls in a row were more than   *)
(*              2*maxDelay apart                                           *)
(*   lcfg       the limiter's baseDelay and maxDelay                       *)
(***************************************************************************)
VARIABLES limited, caller, failures, lclock, lhist, lcfg

(***************************************************************************)
(* A call of one of the functions of pkg/meta and pkg/resource on an       *)
(* object of its own: the object's annotations and finalizers, and the     *)
(* function called last with its arguments and what it yielded.            *)
(***************************************************************************)
VARIABLE probe

(***************************************************************************)
(* The external resource as the provider's system holds it: whether it     *)
(* exists, and how many times Client.Create has made it.                   *)
(***************************************************************************)
VARIABLE world

managedVars == <<now, srv, mg, entry, stale, pc, obs, connected, ret, result, calls,
                 captured, tries, writes>>

rateVars == <<limited, caller, failures, lclock, lhist, lcfg>>

vars == <<managedVars, rateVars, probe, world>>

NoObject == [ann |-> NoAnnotations, fin |-> << >>, deleted |-> FALSE, cond |-> NoConditions]
NoObservation == [exists |-> FALSE, upToDate |-> FALSE, lateInit |-> FALSE]
NoResult == [requeue |-> FALSE, after |-> 0, err |-> "nil"]

Policies == {"", ManagementPolicyDefault, ManagementPolicyObserveCreateUpdate,
             ManagementPolicyObserveDelete, ManagementPolicyObserve}

\* A call of the current pass: what was called, the error it returned, the
\* annotation value it carried (if any) and, for a timestamp annotation, the
\* second the clock showed when it was set.
Call(op, err, arg, at) == [op |-> op, err |-> err, arg |-> arg, at |-> at]

\* The object as a client reads it from the server.  The status the server
\* stores plays no part in Reconcile, which only upserts conditions; it is not
\* kept, and a copy read from the server carries no condition.
Stored == [ann |-> srv.ann, fin |-> srv.fin, deleted |-> srv.deleted, cond |-> NoConditions]

Busy == pc \notin {"idle", "done", "panicked"}

(***************************************************************************)
(* The API server.  fault is an injected failure ("nil" for none).         *)
(***************************************************************************)
GetErr(fault) ==
    IF fault # "nil" THEN fault ELSE IF ~srv.exists THEN "notfound" ELSE "nil"

WriteErr(fault) ==
    IF fault # "nil" THEN fault
    ELSE IF ~srv.exists THEN "notfound"
    ELSE IF stale THEN "conflict"
    ELSE "nil"

\* client.Update stores metadata and spec, never the status; an object with a
\* deletion timestamp and no finalizer left is removed.
AfterUpdate(o) ==
    [srv EXCEPT !.ann = o.ann, !.fin = o.fin,
                !.exists = ~(srv.deleted /\ o.fin = << >>)]

(***************************************************************************)
(* Returning from Reconcile.  A return after Connect succeeded runs the    *)
(* deferred Disconnect first.                                              *)
(***************************************************************************)
Return(requeue, after, err) ==
    /\ result' = [requeue |-> requeue, after |-> after, err |-> err]
    /\ pc' = IF connected THEN "disconnect" ELSE "done"

\* return Result{...}, errors.Wrap(r.client.Status().Update(ctx, managed), ...)
ReturnWithStatus(requeue, after) ==
    /\ ret' = [requeue |-> requeue, after |-> after]
    /\ pc' = "status"

\* The annotations a user gives a new object: an empty value stands for a key
\* the user did not set.
UserAnnotations(paused, policy) ==
    AddAnnotations(
        IF paused = "" THEN NoAnnotations
        ELSE OneAnnotation(AnnotationKeyReconciliationPaused, paused),
        IF policy = "" THEN NoAnnotations
        ELSE OneAnnotation(AnnotationKeyManagementPolicy, policy))

(***************************************************************************)
(* The rate-limiting dispatcher: pkg/ratelimiter.Reconciler.               *)
(***************************************************************************)
\* The workers of the host that may be inside Reconcile at once.
Callers == {"w1", "w2", "w3"}

\* The name the dispatcher was made with, and the requests it is handed
\* (req.String() of a namespaced name).
name == "managed/"
Requests == {"default/a", "default/b"}

\* item := r.name + req.String()
Item(req) == name \o req

\* The delays the limiter of the dispatcher answers: any TypedRateLimiter,
\* as the predictableRateLimiter of the tests.
Delays == 0..MaxAnswer

NoError == "nil"
ErrBoom == "boom"

\* What the inner reconciler may return.
InnerResults ==
    {[requeue |-> FALSE, after |-> 0, err |-> NoError],
     [requeue |-> TRUE, after |-> 0, err |-> NoError],
     [requeue |-> FALSE, after |-> 0, err |-> ErrBoom]}

NoReturn == [requeue |-> FALSE, after |-> 0, err |-> "none"]

\* A caller that has not been handed a request.
IdleCaller ==
    [pc |-> "idle", req |-> "", limited |-> FALSE, d |-> 0,
     calls |-> << >>, ret |-> NoReturn, delays |-> 0]

\* New: an empty limited set, no call under way.
DispatcherIdle ==
    /\ limited = {}
    /\ caller = [p \in Callers |-> IdleCaller]

(***************************************************************************)
(* The exponential timed failure rate limiter.                             *)
(***************************************************************************)
\* The zero FailureRequest, which a read of an absent map entry yields.
ZeroRequest == [Attempts |-> 0, LastAttempt |-> ZeroTime]

NoFailures == [k \in {} |-> ZeroRequest]

\* NewExponentialTimedFailureRateLimiter(1s, 5s), as in TestWhen, in seconds.
LimiterIdle ==
    /\ failures = NoFailures
    /\ lclock = 1
    /\ lhist = [k \in {} |-> << >>]
    /\ lcfg = [baseDelay |-> 1, maxDelay |-> 5]

(***************************************************************************)
(* No function of pkg/meta has been called.                                *)
(***************************************************************************)
NoProbe == [ann |-> NoAnnotations, fin |-> << >>, op |-> "", arg |-> << >>, out |-> << >>]

ProbeIdle == probe = NoProbe

\* No external resource, none created.
NoWorld == [exists |-> FALSE, creates |-> 0]

WorldIdle == world = NoWorld

Init ==
    /\ now = TicksPerSecond
    /\ \E paused \in {"", "true"}, policy \in Policies, fin \in {<< >>, <<OtherFinalizer>>} :
          srv = [exists |-> TRUE,
                 ann |-> UserAnnotations(paused, policy),
                 fin |-> fin,
                 deleted |-> FALSE]
    /\ mg = NoObject
    /\ entry = NoObject
    /\ stale = FALSE
    /\ pc = "idle"
    /\ obs = NoObservation
    /\ connected = FALSE
    /\ ret = [requeue |-> FALSE, after |-> 0]
    /\ result = NoResult
    /\ calls = << >>
    /\ captured = NoAnnotations
    /\ tries = 0
    /\ writes = 0
    /\ DispatcherIdle
    /\ LimiterIdle
    /\ ProbeIdle
    /\ WorldIdle

(***************************************************************************)
(* The clock, and the other writers of the object.                         *)
(***************************************************************************)
\* Time passes.  Only three steps of a pass read the clock (the grace check
\* at "observed", the pending annotation at "finalized", the annotation that
\* follows Create at "create"); a tick before any other step is the same as a
\* tick before the next one of these, so those are the places where the
\* clock is let to advance during a pass.
Tick ==
    /\ pc \in {"idle", "observed", "finalized", "create"}
    /\ now < MaxTime
    /\ now' = now + 1
    /\ UNCHANGED <<probe, world, rateVars, srv, mg, entry, stale, pc, obs, connected, ret, result, calls,
                   captured, tries, writes>>

UserWrite(newsrv) ==
    /\ pc # "done"
    /\ srv.exists
    /\ writes < MaxUserWrites
    /\ newsrv # srv
    /\ srv' = newsrv
    /\ writes' = writes + 1
    /\ stale' = (pc # "idle")
    /\ UNCHANGED <<probe, world, rateVars, now, mg, entry, pc, obs, connected, ret, result, calls,
                   captured, tries>>

\* A user pauses or resumes reconciliation.
UserPause ==
    LET v == IF IsPaused(srv.ann) THEN "false" ELSE "true"
    IN  UserWrite([srv EXCEPT !.ann =
            AddAnnotations(srv.ann, OneAnnotation(AnnotationKeyReconciliationPaused, v))])

\* A user deletes the object: it gets a deletion timestamp, and is removed at
\* once when it holds no finalizer.
UserDelete ==
    /\ ~srv.deleted
    /\ UserWrite([srv EXCEPT !.deleted = TRUE, !.exists = (srv.fin # << >>)])

\* An operator clears the external-create-pending annotation.
OperatorClearPending ==
    /\ AnnotationKeyExternalCreatePending \in DOMAIN srv.ann
    /\ UserWrite([srv EXCEPT !.ann =
            RemoveAnnotations(srv.ann, {AnnotationKeyExternalCreatePending})])

(***************************************************************************)
(* resource.APIFinalizer.  Each yields the error returned and the message  *)
(* it is wrapped with, the object as the call left it in memory, whether   *)
(* the server stored it, and the calls of client.Update it made.           *)
(***************************************************************************)
APIAddFinalizer(o, fault) ==
    IF FinalizerExists(o.fin, FinalizerName)
    THEN [err |-> "nil", msg |-> "", obj |-> o, wrote |-> FALSE, updates |-> 0]
    ELSE LET e == WriteErr(fault)
         IN  [err |-> e,
              msg |-> IF e = "nil" THEN "" ELSE errUpdateObject,
              obj |-> [o EXCEPT !.fin = MetaAddFinalizer(o.fin, FinalizerName)],
              wrote |-> e = "nil",
              updates |-> 1]

APIRemoveFinalizer(o, fault) ==
    IF ~FinalizerExists(o.fin, FinalizerName)
    THEN [err |-> "nil", msg |-> "", obj |-> o, wrote |-> FALSE, panic |-> FALSE,
          updates |-> 0]
    ELSE LET r == MetaRemoveFinalizer(o.fin, FinalizerName)
             e == WriteErr(fault)
             ignored == IF e = "notfound" THEN "nil" ELSE e
         IN  [err |-> ignored,
              msg |-> IF ignored = "nil" THEN "" ELSE errUpdateObject,
              obj |-> [o EXCEPT !.fin = r.f],
              wrote |-> ~r.panic /\ e = "nil",
              panic |-> r.panic,
              updates |-> IF r.panic THEN 0 ELSE 1]

\* What a client.Update made from o leaves on the server and in memory: the
\* response of a stored update carries the server's status.
ServerAfter(o, wrote) == IF wrote THEN AfterUpdate(o) ELSE srv
MemoryAfter(o, wrote) == IF wrote THEN [o EXCEPT !.cond = Stored.cond] ELSE o
StaleAfter(wrote) == IF wrote THEN FALSE ELSE stale

APIFaults == {"nil", "error"}
ExternalFaults == {"nil", "conflict", "error"}
RetryFaults == {"nil", "apierror", "error"}

WithConditions(o, upd) == [o EXCEPT !.cond = SetConditions(o.cond, upd)]

(***************************************************************************)
(* Reconciler.Reconcile, step by step.                                     *)
(***************************************************************************)

\* Get whose not-found error is returned like any other.
LoadNotFoundReturned ==
    /\ pc = "idle"
    /\ \E fault \in APIFaults :
          LET err == GetErr(fault)
          IN  /\ calls' = <<Call("Get", err, "", 0)>>
              /\ IF err = "nil"
                 THEN /\ mg' = Stored
                      /\ entry' = Stored
                      /\ pc' = "loaded"
                      /\ result' = NoResult
                 ELSE /\ mg' = NoObject
                      /\ entry' = NoObject
                      /\ pc' = "done"
                      /\ result' = [requeue |-> FALSE, after |-> 0, err |-> errGetManaged]
    /\ stale' = FALSE
    /\ obs' = NoObservation
    /\ connected' = FALSE
    /\ ret' = [requeue |-> FALSE, after |-> 0]
    /\ captured' = NoAnnotations
    /\ tries' = 0
    /\ UNCHANGED <<probe, world, rateVars, now, srv, writes>>

\* reconciler.go 510-523: Get the managed object.
Load ==
    /\ pc = "idle"
    /\ \E fault \in APIFaults :
          LET err == GetErr(fault)
          IN  /\ calls' = <<Call("Get", err, "", 0)>>
              /\ IF err = "nil"
                 THEN /\ mg' = Stored
                      /\ entry' = Stored
                      /\ pc' = "loaded"
                      /\ result' = NoResult
                 ELSE /\ mg' = NoObject
                      /\ entry' = NoObject
                      /\ pc' = "done"
                      /\ result' = [requeue |-> FALSE, after |-> 0,
                                    err |-> IF err = "notfound" THEN "nil" ELSE errGetManaged]
    /\ stale' = FALSE
    /\ obs' = NoObservation
    /\ connected' = FALSE
    /\ ret' = [requeue |-> FALSE, after |-> 0]
    /\ captured' = NoAnnotations
    /\ tries' = 0
    /\ UNCHANGED <<probe, world, rateVars, now, srv, writes>>

\* Every return of the form
\*   return Result{...}, errors.Wrap(r.client.Status().Update(ctx, managed), ...)
StatusUpdate ==
    /\ pc = "status"
    /\ \E fault \in APIFaults :
          LET err == WriteErr(fault)
          IN  /\ calls' = Append(calls, Call("StatusUpdate", err, "", 0))
              /\ stale' = IF err = "nil" THEN FALSE ELSE stale
              /\ Return(ret.requeue, ret.after,
                        IF err = "nil" THEN "nil" ELSE errUpdateManagedStatus)
    /\ UNCHANGED <<probe, world, rateVars, now, srv, mg, entry, obs, connected, ret, captured, tries, writes>>

\* The deferred Disconnect with its error made the error of Reconcile.
DisconnectErrorReturned ==
    /\ pc = "disconnect"
    /\ \E fault \in APIFaults :
          /\ calls' = Append(calls, Call("Disconnect", fault, "", 0))
          /\ result' = IF fault = "nil" THEN result ELSE [result EXCEPT !.err = fault]
    /\ pc' = "done"
    /\ UNCHANGED <<probe, world, rateVars, now, srv, mg, entry, stale, obs, connected, ret,
                   captured, tries, writes>>

\* reconciler.go 589-594: the deferred Disconnect.
Disconnect ==
    /\ pc = "disconnect"
    /\ \E fault \in APIFaults :
          calls' = Append(calls, Call("Disconnect", fault, "", 0))
    /\ pc' = "done"
    /\ UNCHANGED <<probe, world, rateVars, now, srv, mg, entry, stale, obs, connected, ret, result,
                   captured, tries, writes>>

\* The paused return with Requeue set.
PausedCheckRequeues ==
    /\ pc = "loaded"
    /\ IsPaused(mg.ann)
    /\ mg' = WithConditions(mg, [Synced |-> ReconcilePaused])
    /\ ReturnWithStatus(TRUE, 0)
    /\ UNCHANGED <<probe, world, rateVars, now, srv, entry, stale, obs, connected, result, calls,
                   captured, tries, writes>>

\* reconciler.go 527-534.
PausedCheck ==
    /\ pc = "loaded"
    /\ IsPaused(mg.ann)
    /\ mg' = WithConditions(mg, [Synced |-> ReconcilePaused])
    /\ ReturnWithStatus(FALSE, 0)
    /\ UNCHANGED <<probe, world, rateVars, now, srv, entry, stale, obs, connected, result, calls,
                   captured, tries, writes>>

\* RemoveFinalizer whose successful return asks for a requeue.
RemoveFinalizerAndRequeue ==
    \E fault \in APIFaults :
        LET r == APIRemoveFinalizer(mg, fault)
        IN  /\ calls' = Append(calls, Call("RemoveFinalizer", r.err, "", 0))
            /\ srv' = ServerAfter(r.obj, r.wrote)
            /\ stale' = StaleAfter(r.wrote)
            /\ IF r.panic
               THEN /\ pc' = "panicked"
                    /\ UNCHANGED <<mg, ret, result>>
               ELSE IF r.err = "conflict"
               THEN /\ mg' = MemoryAfter(r.obj, r.wrote)
                    /\ Return(TRUE, 0, "nil")
                    /\ UNCHANGED ret
               ELSE IF r.err # "nil"
               THEN /\ mg' = WithConditions(MemoryAfter(r.obj, r.wrote),
                                 [Ready |-> Deleting, Synced |-> ReconcileError(errUpdateObject)])
                    /\ ReturnWithStatus(TRUE, 0)
                    /\ UNCHANGED result
               ELSE /\ mg' = MemoryAfter(r.obj, r.wrote)
                    /\ Return(TRUE, 0, "nil")
                    /\ UNCHANGED ret

\* RemoveFinalizer and the three ways Reconcile returns after it
\* (reconciler.go 542-560 and 664-682).
RemoveFinalizerAndReturn ==
    \E fault \in APIFaults :
        LET r == APIRemoveFinalizer(mg, fault)
        IN  /\ calls' = Append(calls, Call("RemoveFinalizer", r.err, "", 0))
            /\ srv' = ServerAfter(r.obj, r.wrote)
            /\ stale' = StaleAfter(r.wrote)
            /\ IF r.panic
               THEN /\ pc' = "panicked"
                    /\ UNCHANGED <<mg, ret, result>>
               ELSE IF r.err = "conflict"
               THEN /\ mg' = MemoryAfter(r.obj, r.wrote)
                    /\ Return(TRUE, 0, "nil")
                    /\ UNCHANGED ret
               ELSE IF r.err # "nil"
               THEN /\ mg' = WithConditions(MemoryAfter(r.obj, r.wrote),
                                 [Ready |-> Deleting, Synced |-> ReconcileError(errUpdateObject)])
                    /\ ReturnWithStatus(TRUE, 0)
                    /\ UNCHANGED result
               ELSE /\ mg' = MemoryAfter(r.obj, r.wrote)
                    /\ Return(FALSE, 0, "nil")
                    /\ UNCHANGED ret

\* reconciler.go 539-561.
OrphanShortCircuit ==
    /\ pc = "loaded"
    /\ ~IsPaused(mg.ann)
    /\ mg.deleted /\ ~ShouldDelete(mg.ann)
    /\ RemoveFinalizerAndReturn
    /\ UNCHANGED <<probe, world, rateVars, now, entry, obs, connected, captured, tries, writes>>

\* The leak guard returning Requeue: true, as every other error return does.
LeakGuardRequeues ==
    /\ pc = "loaded"
    /\ ~IsPaused(mg.ann)
    /\ ~(mg.deleted /\ ~ShouldDelete(mg.ann))
    /\ ExternalCreateIncomplete(mg.ann)
    /\ mg' = WithConditions(mg, [Ready |-> Creating,
                                 Synced |-> ReconcileError(errCreateIncomplete)])
    /\ ReturnWithStatus(TRUE, 0)
    /\ UNCHANGED <<probe, world, rateVars, now, srv, entry, stale, obs, connected, result, calls,
                   captured, tries, writes>>

\* reconciler.go 567-572.
LeakGuard ==
    /\ pc = "loaded"
    /\ ~IsPaused(mg.ann)
    /\ ~(mg.deleted /\ ~ShouldDelete(mg.ann))
    /\ ExternalCreateIncomplete(mg.ann)
    /\ mg' = WithConditions(mg, [Ready |-> Creating,
                                 Synced |-> ReconcileError(errCreateIncomplete)])
    /\ ReturnWithStatus(FALSE, 0)
    /\ UNCHANGED <<probe, world, rateVars, now, srv, entry, stale, obs, connected, result, calls,
                   captured, tries, writes>>

\* Connect reached without the leak guard's test in front of it.
ConnectUnguarded ==
    /\ pc = "loaded"
    /\ ~IsPaused(mg.ann)
    /\ ~(mg.deleted /\ ~ShouldDelete(mg.ann))
    /\ \E fault \in ExternalFaults :
          /\ calls' = Append(calls, Call("Connect", fault, "", 0))
          /\ IF fault = "nil"
             THEN /\ connected' = TRUE
                  /\ pc' = "observe"
                  /\ UNCHANGED <<mg, ret, result>>
             ELSE IF fault = "conflict"
             THEN /\ Return(TRUE, 0, "nil")
                  /\ UNCHANGED <<mg, ret, connected>>
             ELSE /\ mg' = WithConditions(mg, [Synced |-> ReconcileError(errReconcileConnect)])
                  /\ ReturnWithStatus(TRUE, 0)
                  /\ UNCHANGED <<result, connected>>
    /\ UNCHANGED <<probe, world, rateVars, now, srv, entry, stale, obs, captured, tries, writes>>

\* A Connect error handed back as the error of Reconcile.
ConnectErrorReturned ==
    /\ pc = "loaded"
    /\ ~IsPaused(mg.ann)
    /\ ~(mg.deleted /\ ~ShouldDelete(mg.ann))
    /\ ~ExternalCreateIncomplete(mg.ann)
    /\ \E fault \in ExternalFaults :
          /\ calls' = Append(calls, Call("Connect", fault, "", 0))
          /\ IF fault = "nil"
             THEN /\ connected' = TRUE
                  /\ pc' = "observe"
                  /\ UNCHANGED <<mg, ret, result>>
             ELSE IF fault = "conflict"
             THEN /\ Return(TRUE, 0, "nil")
                  /\ UNCHANGED <<mg, ret, connected>>
             ELSE /\ mg' = WithConditions(mg, [Synced |-> ReconcileError(errReconcileConnect)])
                  /\ Return(TRUE, 0, errReconcileConnect)
                  /\ UNCHANGED <<ret, connected>>
    /\ UNCHANGED <<probe, world, rateVars, now, srv, entry, stale, obs, captured, tries, writes>>

\* reconciler.go 574-588.
Connect ==
    /\ pc = "loaded"
    /\ ~IsPaused(mg.ann)
    /\ ~(mg.deleted /\ ~ShouldDelete(mg.ann))
    /\ ~ExternalCreateIncomplete(mg.ann)
    /\ \E fault \in ExternalFaults :
          /\ calls' = Append(calls, Call("Connect", fault, "", 0))
          /\ IF fault = "nil"
             THEN /\ connected' = TRUE
                  /\ pc' = "observe"
                  /\ UNCHANGED <<mg, ret, result>>
             ELSE IF fault = "conflict"
             THEN /\ Return(TRUE, 0, "nil")
                  /\ UNCHANGED <<mg, ret, connected>>
             ELSE /\ mg' = WithConditions(mg, [Synced |-> ReconcileError(errReconcileConnect)])
                  /\ ReturnWithStatus(TRUE, 0)
                  /\ UNCHANGED <<result, connected>>
    /\ UNCHANGED <<probe, world, rateVars, now, srv, entry, stale, obs, captured, tries, writes>>

\* Observe with its error dropped: the pass goes on with whatever observation
\* came back.
ObserveErrorIgnored ==
    /\ pc = "observe"
    /\ \E fault \in ExternalFaults :
          /\ calls' = Append(calls, Call("Observe", fault, "", 0))
          /\ \E o \in [exists : BOOLEAN, upToDate : BOOLEAN, lateInit : BOOLEAN] :
                obs' = o
          /\ pc' = "observed"
          /\ UNCHANGED <<mg, ret, result>>
    /\ UNCHANGED <<probe, world, rateVars, now, srv, entry, stale, connected, captured, tries, writes>>

\* reconciler.go 596-611.
Observe ==
    /\ pc = "observe"
    /\ \E fault \in ExternalFaults :
          /\ calls' = Append(calls, Call("Observe", fault, "", 0))
          /\ IF fault = "nil"
             THEN /\ \E o \in [exists : BOOLEAN, upToDate : BOOLEAN, lateInit : BOOLEAN] :
                        obs' = o
                  /\ pc' = "observed"
                  /\ UNCHANGED <<mg, ret, result>>
             ELSE IF fault = "conflict"
             THEN /\ Return(TRUE, 0, "nil")
                  /\ UNCHANGED <<mg, ret, obs>>
             ELSE /\ mg' = WithConditions(mg, [Synced |-> ReconcileError(errReconcileObserve)])
                  /\ ReturnWithStatus(TRUE, 0)
                  /\ UNCHANGED <<result, obs>>
    /\ UNCHANGED <<probe, world, rateVars, now, srv, entry, stale, connected, captured, tries, writes>>

\* The two waits decided right after Observe (reconciler.go 615 and 626).
ObserveOnlyMissingCase == ~obs.exists /\ ShouldOnlyObserve(mg.ann)

CreationGraceCase ==
    /\ ~obs.exists
    /\ ExternalCreateSucceededDuring(mg.ann, GracePeriod, now)

\* reconciler.go 615-619.
ObserveOnlyMissing ==
    /\ pc = "observed"
    /\ ObserveOnlyMissingCase
    /\ mg' = WithConditions(mg, [Synced |-> ReconcileError(errReconcileObserve)])
    /\ ReturnWithStatus(TRUE, 0)
    /\ UNCHANGED <<probe, world, rateVars, now, srv, entry, stale, obs, connected, result, calls,
                   captured, tries, writes>>

\* The grace check made before the observe-only check.
CreationGraceFirst ==
    /\ pc = "observed"
    /\ CreationGraceCase
    /\ Return(TRUE, 0, "nil")
    /\ UNCHANGED <<probe, world, rateVars, now, srv, mg, entry, stale, obs, connected, ret, calls,
                   captured, tries, writes>>

\* reconciler.go 626-630.
CreationGrace ==
    /\ pc = "observed"
    /\ ~ObserveOnlyMissingCase
    /\ CreationGraceCase
    /\ Return(TRUE, 0, "nil")
    /\ UNCHANGED <<probe, world, rateVars, now, srv, mg, entry, stale, obs, connected, ret, calls,
                   captured, tries, writes>>

Proceeding == pc = "observed" /\ ~ObserveOnlyMissingCase /\ ~CreationGraceCase

\* A successful Client.Delete returned without Requeue.
DeleteExternalNotRequeued ==
    /\ Proceeding
    /\ mg.deleted
    /\ obs.exists /\ ShouldDelete(mg.ann)
    /\ \E fault \in ExternalFaults :
          /\ calls' = Append(calls, Call("Delete", fault, "", 0))
          /\ mg' = WithConditions(mg,
                     [Ready |-> Deleting,
                      Synced |-> IF fault = "nil" THEN ReconcileSuccess
                                 ELSE ReconcileError(errReconcileDelete)])
          /\ ReturnWithStatus(fault # "nil", 0)
    /\ UNCHANGED <<probe, world, rateVars, now, srv, entry, stale, obs, connected, result,
                   captured, tries, writes>>

\* reconciler.go 632-662.
DeleteExternal ==
    /\ Proceeding
    /\ mg.deleted
    /\ obs.exists /\ ShouldDelete(mg.ann)
    /\ \E fault \in ExternalFaults :
          /\ calls' = Append(calls, Call("Delete", fault, "", 0))
          /\ mg' = WithConditions(mg,
                     [Ready |-> Deleting,
                      Synced |-> IF fault = "nil" THEN ReconcileSuccess
                                 ELSE ReconcileError(errReconcileDelete)])
    /\ ReturnWithStatus(TRUE, 0)
    /\ UNCHANGED <<probe, world, rateVars, now, srv, entry, stale, obs, connected, result,
                   captured, tries, writes>>

\* The deletion branch falling through to RemoveFinalizer whatever Observe
\* reported.
FinalizeDeletionUnguarded ==
    /\ Proceeding
    /\ mg.deleted
    /\ RemoveFinalizerAndReturn
    /\ UNCHANGED <<probe, world, rateVars, now, entry, obs, connected, captured, tries, writes>>

\* reconciler.go 664-682.
FinalizeDeletion ==
    /\ Proceeding
    /\ mg.deleted
    /\ ~(obs.exists /\ ShouldDelete(mg.ann))
    /\ RemoveFinalizerAndReturn
    /\ UNCHANGED <<probe, world, rateVars, now, entry, obs, connected, captured, tries, writes>>

\* AddFinalizer with its error dropped.
AddFinalizerUnchecked ==
    /\ Proceeding
    /\ ~mg.deleted
    /\ \E fault \in APIFaults :
          LET r == APIAddFinalizer(mg, fault)
          IN  /\ calls' = Append(calls, Call("AddFinalizer", r.err, "", 0))
              /\ srv' = ServerAfter(r.obj, r.wrote)
              /\ stale' = StaleAfter(r.wrote)
              /\ mg' = MemoryAfter(r.obj, r.wrote)
              /\ pc' = "finalized"
              /\ UNCHANGED <<ret, result>>
    /\ UNCHANGED <<probe, world, rateVars, now, entry, obs, connected, captured, tries, writes>>

\* reconciler.go 685-695.
AddFinalizer ==
    /\ Proceeding
    /\ ~mg.deleted
    /\ \E fault \in APIFaults :
          LET r == APIAddFinalizer(mg, fault)
          IN  /\ calls' = Append(calls, Call("AddFinalizer", r.err, "", 0))
              /\ srv' = ServerAfter(r.obj, r.wrote)
              /\ stale' = StaleAfter(r.wrote)
              /\ IF r.err = "nil"
                 THEN /\ mg' = MemoryAfter(r.obj, r.wrote)
                      /\ pc' = "finalized"
                      /\ UNCHANGED <<ret, result>>
                 ELSE IF r.err = "conflict"
                 THEN /\ mg' = r.obj
                      /\ Return(TRUE, 0, "nil")
                      /\ UNCHANGED ret
                 ELSE /\ mg' = WithConditions(r.obj, [Synced |-> ReconcileError(errUpdateObject)])
                      /\ ReturnWithStatus(TRUE, 0)
                      /\ UNCHANGED result
    /\ UNCHANGED <<probe, world, rateVars, now, entry, obs, connected, captured, tries, writes>>

CreateCase == ~obs.exists /\ ShouldCreate(mg.ann)

\* The Update of the pending annotation with its error dropped.
PersistCreatePendingUnchecked ==
    /\ pc = "finalized"
    /\ CreateCase
    /\ \E fault \in APIFaults :
          LET o == [mg EXCEPT !.ann = SetExternalCreatePending(mg.ann, now)]
              err == WriteErr(fault)
              sent == GetAnnotation(o.ann, AnnotationKeyExternalCreatePending)
          IN  /\ calls' = calls \o <<Call("SetExternalCreatePending", "nil", sent, now \div TicksPerSecond),
                                     Call("UpdatePending", err, sent, 0)>>
              /\ srv' = ServerAfter(o, err = "nil")
              /\ stale' = StaleAfter(err = "nil")
              /\ mg' = MemoryAfter(o, err = "nil")
              /\ pc' = "create"
              /\ UNCHANGED <<ret, result>>
    /\ UNCHANGED <<probe, world, rateVars, now, entry, obs, connected, captured, tries, writes>>

\* reconciler.go 697-714: write external-create-pending with a plain Update.
PersistCreatePending ==
    /\ pc = "finalized"
    /\ CreateCase
    /\ \E fault \in APIFaults :
          LET o == [mg EXCEPT !.ann = SetExternalCreatePending(mg.ann, now)]
              err == WriteErr(fault)
              sent == GetAnnotation(o.ann, AnnotationKeyExternalCreatePending)
          IN  /\ calls' = calls \o <<Call("SetExternalCreatePending", "nil", sent, now \div TicksPerSecond),
                                     Call("UpdatePending", err, sent, 0)>>
              /\ srv' = ServerAfter(o, err = "nil")
              /\ stale' = StaleAfter(err = "nil")
              /\ IF err = "nil"
                 THEN /\ mg' = MemoryAfter(o, TRUE)
                      /\ pc' = "create"
                      /\ UNCHANGED <<ret, result>>
                 ELSE IF err = "conflict"
                 THEN /\ mg' = o
                      /\ Return(TRUE, 0, "nil")
                      /\ UNCHANGED ret
                 ELSE /\ mg' = WithConditions(o, [Ready |-> Creating,
                                                  Synced |-> ReconcileError(errUpdateManaged)])
                      /\ ReturnWithStatus(TRUE, 0)
                      /\ UNCHANGED result
    /\ UNCHANGED <<probe, world, rateVars, now, entry, obs, connected, captured, tries, writes>>

\* Client.Create called a second time after an error that is not a conflict.
CreateRetried ==
    /\ pc = "create"
    /\ \E fault \in ExternalFaults, again \in {"nil", "error"} :
          IF fault = "conflict"
          THEN /\ calls' = Append(calls, Call("Create", fault, "", 0))
               /\ Return(TRUE, 0, "nil")
               /\ UNCHANGED <<mg, captured>>
          ELSE LET last == IF fault = "nil" THEN "nil" ELSE again
                   a == IF last = "nil"
                        THEN SetExternalCreateSucceeded(mg.ann, now)
                        ELSE SetExternalCreateFailed(mg.ann, now)
                   set == IF last = "nil" THEN "SetExternalCreateSucceeded"
                          ELSE "SetExternalCreateFailed"
                   tried == IF fault = "nil" THEN <<Call("Create", fault, "", 0)>>
                            ELSE <<Call("Create", fault, "", 0), Call("Create", again, "", 0)>>
               IN  /\ calls' = calls \o tried \o
                                 <<Call(set, "nil", RFC3339Format(now), now \div TicksPerSecond)>>
                   /\ mg' = [mg EXCEPT !.ann = a]
                   /\ captured' = a
                   /\ pc' = IF last = "nil" THEN "markSucceeded" ELSE "markFailed"
                   /\ UNCHANGED result
    /\ tries' = 0
    /\ UNCHANGED <<probe, world, rateVars, now, srv, entry, stale, obs, connected, ret, writes>>

\* reconciler.go 716-735 and 751-765: Client.Create, then the annotation that
\* records how it ended.
CreateStep ==
    /\ pc = "create"
    /\ \E fault \in ExternalFaults :
          IF fault = "conflict"
          THEN /\ calls' = Append(calls, Call("Create", fault, "", 0))
               /\ Return(TRUE, 0, "nil")
               /\ UNCHANGED <<mg, captured>>
          ELSE LET a == IF fault = "nil"
                        THEN SetExternalCreateSucceeded(mg.ann, now)
                        ELSE SetExternalCreateFailed(mg.ann, now)
                   set == IF fault = "nil" THEN "SetExternalCreateSucceeded"
                          ELSE "SetExternalCreateFailed"
               IN  /\ calls' = calls \o <<Call("Create", fault, "", 0),
                                          Call(set, "nil", RFC3339Format(now), now \div TicksPerSecond)>>
                   /\ mg' = [mg EXCEPT !.ann = a]
                   /\ captured' = a
                   /\ pc' = IF fault = "nil" THEN "markSucceeded" ELSE "markFailed"
                   /\ UNCHANGED result
    /\ tries' = 0
    /\ UNCHANGED <<probe, rateVars, now, srv, entry, stale, obs, connected, ret, writes>>

\* In the reconciler as it is checked on its own the external resource is
\* whatever Observe reports, and Create leaves the world alone.
Create == CreateStep /\ UNCHANGED world

\* UpdateCriticalAnnotations with Reconcile reporting a failed annotation
\* update in place of the failed Create.
UpdateCriticalAnnotationsReported ==
    /\ pc \in {"markSucceeded", "markFailed"}
    /\ \E getFault \in RetryFaults, updateFault \in RetryFaults :
          LET gerr == GetErr(getFault)
              o == [Stored EXCEPT !.ann = AddAnnotations(Stored.ann, captured)]
              err == IF gerr # "nil" THEN gerr ELSE updateFault
              wrote == err = "nil"
              retry == err \in {"apierror", "notfound"} /\ tries + 1 < RetrySteps
              after == IF gerr # "nil" THEN mg ELSE MemoryAfter(o, TRUE)
          IN  /\ (gerr # "nil" => updateFault = "nil")
              /\ srv' = ServerAfter(o, wrote)
              /\ stale' = IF gerr = "nil" THEN FALSE ELSE stale
              /\ tries' = IF retry THEN tries + 1 ELSE 0
              /\ IF retry
                 THEN /\ mg' = after
                      /\ UNCHANGED <<pc, ret, calls>>
                 ELSE /\ calls' = Append(calls, Call("UpdateCriticalAnnotations",
                                   IF err = "nil" THEN "nil" ELSE "error", "", 0))
                      /\ mg' = WithConditions(after,
                            [Ready |-> Creating,
                             Synced |-> IF err # "nil"
                                        THEN ReconcileError(errUpdateManagedAnnotations)
                                        ELSE IF pc = "markFailed"
                                        THEN ReconcileError(errReconcileCreate)
                                        ELSE ReconcileSuccess])
                      /\ ReturnWithStatus(TRUE, 0)
    /\ UNCHANGED <<probe, world, rateVars, now, entry, obs, connected, result, captured, writes>>

\* RetryingCriticalAnnotationUpdater.UpdateCriticalAnnotations, one attempt
\* per step: Get the latest object, AddAnnotations(o, a), Update.  An API
\* error is retried until RetrySteps attempts were made.  When the call
\* returns, Reconcile goes on at reconciler.go 736-748 (Create had failed) or
\* 766-780 (Create had succeeded).
UpdateCriticalAnnotations ==
    /\ pc \in {"markSucceeded", "markFailed"}
    /\ \E getFault \in RetryFaults, updateFault \in RetryFaults :
          LET gerr == GetErr(getFault)
              o == [Stored EXCEPT !.ann = AddAnnotations(Stored.ann, captured)]
              err == IF gerr # "nil" THEN gerr ELSE updateFault
              wrote == err = "nil"
              retry == err \in {"apierror", "notfound"} /\ tries + 1 < RetrySteps
              after == IF gerr # "nil" THEN mg ELSE MemoryAfter(o, TRUE)
          IN  /\ (gerr # "nil" => updateFault = "nil")
              /\ srv' = ServerAfter(o, wrote)
              /\ stale' = IF gerr = "nil" THEN FALSE ELSE stale
              /\ tries' = IF retry THEN tries + 1 ELSE 0
              /\ IF retry
                 THEN /\ mg' = after
                      /\ UNCHANGED <<pc, ret, calls>>
                 ELSE /\ calls' = Append(calls, Call("UpdateCriticalAnnotations",
                                   IF err = "nil" THEN "nil" ELSE "error", "", 0))
                      /\ mg' = WithConditions(after,
                            [Ready |-> Creating,
                             Synced |-> IF pc = "markFailed"
                                        THEN ReconcileError(errReconcileCreate)
                                        ELSE IF err # "nil"
                                        THEN ReconcileError(errUpdateManagedAnnotations)
                                        ELSE ReconcileSuccess])
                      /\ ReturnWithStatus(TRUE, 0)
    /\ UNCHANGED <<probe, world, rateVars, now, entry, obs, connected, result, captured, writes>>

\* reconciler.go 783-797.
LateInitUpdate ==
    /\ pc = "finalized"
    /\ ~CreateCase
    /\ obs.lateInit
    /\ \E fault \in APIFaults :
          LET err == WriteErr(fault)
          IN  /\ calls' = Append(calls, Call("UpdateLateInit", err, "", 0))
              /\ srv' = ServerAfter(mg, err = "nil")
              /\ stale' = StaleAfter(err = "nil")
              /\ IF err = "nil"
                 THEN /\ mg' = MemoryAfter(mg, TRUE)
                      /\ pc' = "sync"
                      /\ UNCHANGED ret
                 ELSE /\ mg' = WithConditions(mg, [Synced |-> ReconcileError(errUpdateManaged)])
                      /\ ReturnWithStatus(TRUE, 0)
    /\ UNCHANGED <<probe, world, rateVars, now, entry, obs, connected, result, captured, tries, writes>>

SyncCase == pc = "sync" \/ (pc = "finalized" /\ ~CreateCase /\ ~obs.lateInit)

\* The up-to-date return asking for an immediate requeue in place of the poll
\* interval.
UpToDateRequeues ==
    /\ SyncCase
    /\ obs.upToDate
    /\ mg' = WithConditions(mg, [Synced |-> ReconcileSuccess])
    /\ ReturnWithStatus(TRUE, 0)
    /\ UNCHANGED <<probe, world, rateVars, now, srv, entry, stale, obs, connected, result, calls,
                   captured, tries, writes>>

\* reconciler.go 799-810.
UpToDate ==
    /\ SyncCase
    /\ obs.upToDate
    /\ mg' = WithConditions(mg, [Synced |-> ReconcileSuccess])
    /\ ReturnWithStatus(FALSE, defaultpollInterval)
    /\ UNCHANGED <<probe, world, rateVars, now, srv, entry, stale, obs, connected, result, calls,
                   captured, tries, writes>>

\* The update denied by the policy made all the same.
SkipUpdateUpdates ==
    /\ SyncCase
    /\ ~obs.upToDate
    /\ ~ShouldUpdate(mg.ann)
    /\ calls' = Append(calls, Call("Update", "nil", "", 0))
    /\ mg' = WithConditions(mg, [Synced |-> ReconcileSuccess])
    /\ ReturnWithStatus(FALSE, defaultpollInterval)
    /\ UNCHANGED <<probe, world, rateVars, now, srv, entry, stale, obs, connected, result,
                   captured, tries, writes>>

\* reconciler.go 817-822.
SkipUpdate ==
    /\ SyncCase
    /\ ~obs.upToDate
    /\ ~ShouldUpdate(mg.ann)
    /\ mg' = WithConditions(mg, [Synced |-> ReconcileSuccess])
    /\ ReturnWithStatus(FALSE, defaultpollInterval)
    /\ UNCHANGED <<probe, world, rateVars, now, srv, entry, stale, obs, connected, result, calls,
                   captured, tries, writes>>

\* A failed Client.Update returned like a successful one, without Requeue or
\* a poll interval.
UpdateErrorNotRequeued ==
    /\ SyncCase
    /\ ~obs.upToDate
    /\ ShouldUpdate(mg.ann)
    /\ \E fault \in ExternalFaults :
          /\ calls' = Append(calls, Call("Update", fault, "", 0))
          /\ IF fault = "nil"
             THEN /\ mg' = WithConditions(mg, [Synced |-> ReconcileSuccess])
                  /\ ReturnWithStatus(FALSE, defaultpollInterval)
             ELSE /\ mg' = WithConditions(mg, [Synced |-> ReconcileError(errReconcileUpdate)])
                  /\ ReturnWithStatus(FALSE, 0)
    /\ UNCHANGED <<probe, world, rateVars, now, srv, entry, stale, obs, connected, result,
                   captured, tries, writes>>

\* reconciler.go 824-846.
Update ==
    /\ SyncCase
    /\ ~obs.upToDate
    /\ ShouldUpdate(mg.ann)
    /\ \E fault \in ExternalFaults :
          /\ calls' = Append(calls, Call("Update", fault, "", 0))
          /\ IF fault = "nil"
             THEN /\ mg' = WithConditions(mg, [Synced |-> ReconcileSuccess])
                  /\ ReturnWithStatus(FALSE, defaultpollInterval)
             ELSE /\ mg' = WithConditions(mg, [Synced |-> ReconcileError(errReconcileUpdate)])
                  /\ ReturnWithStatus(TRUE, 0)
    /\ UNCHANGED <<probe, world, rateVars, now, srv, entry, stale, obs, connected, result,
                   captured, tries, writes>>

\* The host takes the result of a finished pass; the key may be delivered
\* again at any later time.  A process that stops in the middle of a pass
\* (a crash) starts over the same way.
Requeue ==
    /\ pc # "idle"
    /\ pc' = "idle"
    /\ mg' = NoObject
    /\ entry' = NoObject
    /\ stale' = FALSE
    /\ obs' = NoObservation
    /\ connected' = FALSE
    /\ ret' = [requeue |-> FALSE, after |-> 0]
    /\ result' = NoResult
    /\ calls' = << >>
    /\ captured' = NoAnnotations
    /\ tries' = 0
    /\ UNCHANGED <<probe, world, rateVars, now, srv, writes>>

Reconcile ==
    \/ Load
    \/ PausedCheck
    \/ OrphanShortCircuit
    \/ LeakGuard
    \/ Connect
    \/ Observe
    \/ ObserveOnlyMissing
    \/ CreationGrace
    \/ DeleteExternal
    \/ FinalizeDeletion
    \/ AddFinalizer
    \/ PersistCreatePending
    \/ Create
    \/ UpdateCriticalAnnotations
    \/ LateInitUpdate
    \/ UpToDate
    \/ SkipUpdate
    \/ Update
    \/ StatusUpdate
    \/ Disconnect

Next ==
    \/ Reconcile
    \/ Requeue
    \/ Tick
    \/ UserPause
    \/ UserDelete
    \/ OperatorClearPending

Spec == Init /\ [][Next]_vars

(***************************************************************************)
(* The dispatcher's Reconcile, one action per section of code that runs    *)
(* under one hold of limitedL or is one call of the limiter or of the      *)
(* inner reconciler; concurrent calls interleave between the sections.     *)
(***************************************************************************)
\* The managed reconciler at rest, while the dispatcher or the limiter is
\* studied on its own.
ManagedIdle ==
    /\ now = TicksPerSecond
    /\ srv = [exists |-> TRUE,
              ann |-> UserAnnotations("", ManagementPolicyDefault),
              fin |-> << >>,
              deleted |-> FALSE]
    /\ mg = NoObject
    /\ entry = NoObject
    /\ stale = FALSE
    /\ pc = "idle"
    /\ obs = NoObservation
    /\ connected = FALSE
    /\ ret = [requeue |-> FALSE, after |-> 0]
    /\ result = NoResult
    /\ calls = << >>
    /\ captured = NoAnnotations
    /\ tries = 0
    /\ writes = 0

limiterVars == <<failures, lclock, lhist, lcfg>>

Record(p, call) == Append(caller[p].calls, call)

\* The host hands a request to a worker, which enters Reconcile.
Deliver(p) ==
    /\ caller[p].pc = "idle"
    /\ \E req \in Requests :
          caller' = [caller EXCEPT ![p] = [@ EXCEPT !.pc = "rlock", !.req = req]]
    /\ UNCHANGED <<probe, world, managedVars, limiterVars, limited>>

\* when, with the limiter consulted for an item that is limited as well.
ReadLimitedAsks(p) ==
    /\ caller[p].pc = "rlock"
    /\ LET found == Item(caller[p].req) \in limited
       IN  caller' = [caller EXCEPT ![p] =
                        [@ EXCEPT !.limited = found,
                                  !.calls = Record(p, [op |-> "RLock", limited |-> found]),
                                  !.pc = "ask"]]
    /\ UNCHANGED <<probe, world, managedVars, limiterVars, limited>>

\* when: _, limited := r.limited[item], under the read lock.
ReadLimited(p) ==
    /\ caller[p].pc = "rlock"
    /\ LET found == Item(caller[p].req) \in limited
       IN  caller' = [caller EXCEPT ![p] =
                        [@ EXCEPT !.limited = found,
                                  !.calls = Record(p, [op |-> "RLock", limited |-> found]),
                                  !.pc = IF found THEN "delete" ELSE "ask"]]
    /\ UNCHANGED <<probe, world, managedVars, limiterVars, limited>>

\* when: the item is limited; delete(r.limited, item) under the write lock
\* and return 0.
DeleteLimited(p) ==
    /\ caller[p].pc = "delete"
    /\ limited' = limited \ {Item(caller[p].req)}
    /\ caller' = [caller EXCEPT ![p] =
                    [@ EXCEPT !.d = 0,
                              !.calls = Record(p, [op |-> "Delete"]),
                              !.pc = "forget"]]
    /\ UNCHANGED <<probe, world, managedVars, limiterVars>>

\* Where a call that holds the delay d goes once when has returned it:
\* Reconcile returns RequeueAfter d when d > 0, and otherwise goes on.
AfterWhen(c, d) ==
    IF d > 0
    THEN [c EXCEPT !.pc = "delayed",
                   !.ret = [requeue |-> FALSE, after |-> d, err |-> NoError],
                   !.delays = @ + 1]
    ELSE [c EXCEPT !.pc = "forget"]

\* when: d := r.limit.When(item); a delay other than 0 is recorded next.
AskLimiterNoInsert(p) ==
    /\ caller[p].pc = "ask"
    /\ \E d \in Delays :
          caller' = [caller EXCEPT ![p] =
                       AfterWhen([@ EXCEPT !.d = d,
                                           !.calls = Record(p, [op |-> "When", d |-> d])],
                                 d)]
    /\ UNCHANGED <<probe, world, managedVars, limiterVars, limited>>

AskLimiter(p) ==
    /\ caller[p].pc = "ask"
    /\ \E d \in Delays :
          caller' = [caller EXCEPT ![p] =
                       LET c == [@ EXCEPT !.d = d,
                                          !.calls = Record(p, [op |-> "When", d |-> d])]
                       IN  IF d # 0 THEN [c EXCEPT !.pc = "insert"] ELSE AfterWhen(c, d)]
    /\ UNCHANGED <<probe, world, managedVars, limiterVars, limited>>

\* when, returning the delay without recording the item as limited.
InsertLimitedSkips(p) ==
    /\ caller[p].pc = "insert"
    /\ caller' = [caller EXCEPT ![p] =
                    AfterWhen([@ EXCEPT !.calls = Record(p, [op |-> "Insert"])],
                              caller[p].d)]
    /\ UNCHANGED <<probe, world, managedVars, limiterVars, limited>>

\* when: r.limited[item] = struct{}{} under the write lock, and return d.
InsertLimited(p) ==
    /\ caller[p].pc = "insert"
    /\ limited' = limited \cup {Item(caller[p].req)}
    /\ caller' = [caller EXCEPT ![p] =
                    AfterWhen([@ EXCEPT !.calls = Record(p, [op |-> "Insert"])],
                              caller[p].d)]
    /\ UNCHANGED <<probe, world, managedVars, limiterVars>>

\* Reconcile: r.limit.Forget(item).
CallForget(p) ==
    /\ caller[p].pc = "forget"
    /\ caller' = [caller EXCEPT ![p] =
                    [@ EXCEPT !.calls = Record(p, [op |-> "Forget"]),
                              !.pc = "inner"]]
    /\ UNCHANGED <<probe, world, managedVars, limiterVars, limited>>

\* Reconcile: return r.inner.Reconcile(ctx, req).
Forward(p) ==
    /\ caller[p].pc = "inner"
    /\ \E r \in InnerResults :
          caller' = [caller EXCEPT ![p] =
                       [@ EXCEPT !.calls = Record(p, [op |-> "Inner", ret |-> r]),
                                 !.ret = r,
                                 !.pc = "forwarded"]]
    /\ UNCHANGED <<probe, world, managedVars, limiterVars, limited>>

\* The host delivers the request again once the delay it was answered has
\* passed: a new call of Reconcile.
Redeliver(p) ==
    /\ caller[p].pc = "delayed"
    /\ caller' = [caller EXCEPT ![p] =
                    [@ EXCEPT !.pc = "rlock", !.calls = << >>, !.ret = NoReturn,
                              !.limited = FALSE, !.d = 0]]
    /\ UNCHANGED <<probe, world, managedVars, limiterVars, limited>>

\* The steps of one call of Reconcile.
Dispatch(p) ==
    \/ ReadLimited(p)
    \/ DeleteLimited(p)
    \/ AskLimiter(p)
    \/ InsertLimited(p)
    \/ CallForget(p)
    \/ Forward(p)

DispatchInit == ManagedIdle /\ DispatcherIdle /\ LimiterIdle /\ ProbeIdle /\ WorldIdle

DispatchNext ==
    \/ \E p \in Callers : Deliver(p)
    \/ \E p \in Callers : Dispatch(p)
    \/ \E p \in Callers : Redeliver(p)

DispatchSpec == DispatchInit /\ [][DispatchNext]_vars

\* The host delivers again after every delay, and a call that has begun runs
\* to its return.
DispatchFair ==
    /\ DispatchInit
    /\ [][DispatchNext]_vars
    /\ \A p \in Callers : WF_vars(Dispatch(p) \/ Redeliver(p))

(***************************************************************************)
(* The exponential timed failure rate limiter:                             *)
(* TypedItemExponentialTimedFailureRateLimiter.  Durations are counted in  *)
(* units of the clock and are signed integers of DurationBits bits.        *)
(***************************************************************************)
RECURSIVE Pow2(_)
Pow2(n) == IF n = 0 THEN 1 ELSE 2 * Pow2(n - 1)

\* math.MaxInt64 and math.MinInt64, at the width of the model.
MaxDuration == Pow2(DurationBits - 1) - 1
MinDuration == 0 - Pow2(DurationBits - 1)

\* float64(math.MaxInt64): the constant is rounded to the nearest float64,
\* which is the power of two above it.
FloatMaxDuration == Pow2(DurationBits - 1)

\* Integer arithmetic on Durations wraps.
WrapDuration(x) ==
    ((x + Pow2(DurationBits - 1)) % Pow2(DurationBits)) - Pow2(DurationBits - 1)

\* time.Duration(backoff): exact when the float is in range; out of range
\* the result is implementation-dependent (the smallest Duration on amd64,
\* the largest on arm64).
ToDuration(backoff) ==
    IF backoff <= MaxDuration THEN {backoff} ELSE {MinDuration, MaxDuration}

\* The items the limiter is asked about.
Items == {Item(req) : req \in Requests}

\* The configurations NewExponentialTimedFailureRateLimiter is given: that
\* of TestWhen, a base delay that is not a power of two, and a base delay
\* above the maximum.
Configs ==
    {[baseDelay |-> 1, maxDelay |-> 5],
     [baseDelay |-> 3, maxDelay |-> 5],
     [baseDelay |-> 8, maxDelay |-> 5]}

\* r.failures[item]: the zero FailureRequest when the item is absent.
Failure(item) == IF item \in DOMAIN failures THEN failures[item] ELSE ZeroRequest

\* time.Since(t); since the zero time it saturates.
Since(t) == IF t = ZeroTime THEN MaxDuration ELSE lclock - t

\* The entry is idle: time.Since(LastAttempt) > 2*r.maxDelay.
Idle(item) == Since(Failure(item).LastAttempt) > WrapDuration(2 * lcfg.maxDelay)

Store(item, failreq) ==
    [k \in DOMAIN failures \cup {item} |-> IF k = item THEN failreq ELSE failures[k]]

NoHistory == [delays |-> << >>, last |-> ZeroTime, gap |-> FALSE]

History(item) == IF item \in DOMAIN lhist THEN lhist[item] ELSE NoHistory

\* The calls of When so far, over all items.
RECURSIVE TotalCalls(_)
TotalCalls(S) ==
    IF S = {} THEN 0
    ELSE LET k == CHOOSE x \in S : TRUE
         IN  Len(lhist[k].delays) + TotalCalls(S \ {k})

\* When returned d for the item.
Returns(item, d) ==
    LET h == History(item)
        apart == h.delays # << >> /\ lclock - h.last > 2 * lcfg.maxDelay
    IN  lhist' = [k \in DOMAIN lhist \cup {item} |->
                    IF k = item
                    THEN [delays |-> Append(h.delays, d),
                          last |-> lclock,
                          gap |-> h.gap \/ apart]
                    ELSE lhist[k]]

MaxWhen == DurationBits + 1

\* The delays When computes from the attempts made so far: the backoff as
\* a float64, the test against math.MaxInt64, the conversion, the cap.
Backoff(exp) ==
    LET backoff == lcfg.baseDelay * Pow2(exp)
    IN  IF backoff > FloatMaxDuration
        THEN {lcfg.maxDelay}
        ELSE {IF calculated > lcfg.maxDelay THEN lcfg.maxDelay ELSE calculated :
                 calculated \in ToDuration(backoff)}

\* When, with the idle pass recording the attempt's time.
WhenIdleTouches(item) ==
    /\ TotalCalls(DOMAIN lhist) < MaxWhen
    /\ IF item \notin DOMAIN failures
       THEN /\ failures' = Store(item, [Attempts |-> 1, LastAttempt |-> lclock])
            /\ Returns(item, lcfg.baseDelay)
       ELSE IF Idle(item)
       THEN /\ Returns(item, 0)
            /\ failures' = Store(item, [failures[item] EXCEPT !.LastAttempt = lclock])
       ELSE LET failreq == failures[item]
            IN  /\ failures' = Store(item, [Attempts |-> failreq.Attempts + 1,
                                            LastAttempt |-> lclock])
                /\ \E d \in Backoff(failreq.Attempts) : Returns(item, d)
    /\ UNCHANGED <<probe, world, managedVars, limited, caller, lclock, lcfg>>

\* When: the entry it stores and the delay it returns.
WhenStep(item) ==
    /\ TotalCalls(DOMAIN lhist) < MaxWhen
    /\ IF item \notin DOMAIN failures
       THEN /\ failures' = Store(item, [Attempts |-> 1, LastAttempt |-> lclock])
            /\ Returns(item, lcfg.baseDelay)
       ELSE IF Idle(item)
       THEN /\ Returns(item, 0)
            /\ UNCHANGED failures
       ELSE LET failreq == failures[item]
            IN  /\ failures' = Store(item, [Attempts |-> failreq.Attempts + 1,
                                            LastAttempt |-> lclock])
                /\ \E d \in Backoff(failreq.Attempts) : Returns(item, d)

When(item) ==
    /\ WhenStep(item)
    /\ UNCHANGED <<probe, world, managedVars, limited, caller, lclock, lcfg>>

\* NumRequeues: r.failures[item].Attempts.
NumRequeues(item) == Failure(item).Attempts

\* Forget, deleting the entry whether or not it is idle.
ForgetAlways(item) ==
    /\ failures' = [k \in DOMAIN failures \ {item} |-> failures[k]]
    /\ UNCHANGED <<probe, world, managedVars, limited, caller, lclock, lhist, lcfg>>

\* Forget: the entry is deleted once it is idle.
ForgetStep(item) ==
    IF Idle(item)
    THEN failures' = [k \in DOMAIN failures \ {item} |-> failures[k]]
    ELSE UNCHANGED failures

Forget(item) ==
    /\ ForgetStep(item)
    /\ UNCHANGED <<probe, world, managedVars, limited, caller, lclock, lhist, lcfg>>

\* Time passes, maxDelay at a time: time.Sleep(maxDelay).
LimiterTick ==
    /\ lclock + lcfg.maxDelay <= MaxClock
    /\ lclock' = lclock + lcfg.maxDelay
    /\ UNCHANGED <<probe, world, managedVars, limited, caller, failures, lhist, lcfg>>

LimiterInit ==
    /\ ManagedIdle
    /\ DispatcherIdle
    /\ failures = NoFailures
    /\ lclock = 1
    /\ lhist = [k \in {} |-> << >>]
    /\ lcfg \in Configs
    /\ ProbeIdle
    /\ WorldIdle

LimiterNext ==
    \/ \E item \in Items : When(item)
    \/ \E item \in Items : Forget(item)
    \/ LimiterTick

LimiterSpec == LimiterInit /\ [][LimiterNext]_vars

(***************************************************************************)
(* The dispatcher over the exponential timed failure rate limiter:         *)
(* ratelimiter.New(name, inner, limiter) called for one request  *)
(* by one worker, each call after the one before has returned.  The        *)
(* worker's calls field keeps the outcome of every call of Reconcile.      *)
(***************************************************************************)
SequentialWorker == "w1"
SequentialRequest == "default/a"

Outcome(op, found, d) == [op |-> op, limited |-> found, d |-> d, at |-> lclock]

\* Reconcile up to the return of r.when(req): the returning request is
\* deleted from the limited set; otherwise the limiter's When is asked, the
\* item is inserted when d != 0, and Reconcile returns RequeueAfter: d when
\* d > 0.
ReconcileWhen(p) ==
    LET c == caller[p]
        item == Item(SequentialRequest)
    IN  /\ c.pc \in {"idle", "delayed", "forwarded"}
        /\ IF item \in limited
           THEN /\ limited' = limited \ {item}
                /\ UNCHANGED <<failures, lhist>>
                /\ caller' = [caller EXCEPT ![p] =
                       [c EXCEPT !.pc = "forget", !.req = SequentialRequest,
                                 !.limited = TRUE, !.d = 0]]
           ELSE /\ WhenStep(item)
                /\ LET d == lhist'[item].delays[Len(lhist'[item].delays)]
                   IN  /\ limited' = IF d # 0 THEN limited \cup {item} ELSE limited
                       /\ caller' = [caller EXCEPT ![p] =
                              IF d > 0
                              THEN [c EXCEPT !.pc = "delayed",
                                             !.req = SequentialRequest,
                                             !.limited = FALSE, !.d = d,
                                             !.calls = Append(c.calls, Outcome("Delayed", FALSE, d)),
                                             !.ret = [requeue |-> FALSE, after |-> d, err |-> NoError],
                                             !.delays = c.delays + 1]
                              ELSE [c EXCEPT !.pc = "forget",
                                             !.req = SequentialRequest,
                                             !.limited = FALSE, !.d = d]]
        /\ UNCHANGED <<probe, world, managedVars, lclock, lcfg>>

\* The rest of Reconcile: r.limit.Forget(item), then the inner reconciler,
\* whose result and error are returned.
ReconcileForward(p) ==
    LET c == caller[p]
    IN  /\ c.pc = "forget"
        /\ ForgetStep(Item(c.req))
        /\ \E r \in InnerResults :
               caller' = [caller EXCEPT ![p] =
                   [c EXCEPT !.pc = "forwarded",
                             !.calls = Append(c.calls, Outcome("Forwarded", c.limited, c.d)),
                             !.ret = r]]
        /\ UNCHANGED <<probe, world, managedVars, limited, lclock, lhist, lcfg>>

ComposedNext ==
    \/ ReconcileWhen(SequentialWorker)
    \/ ReconcileForward(SequentialWorker)
    \/ LimiterTick

ComposedSpec == LimiterInit /\ [][ComposedNext]_vars

(***************************************************************************)
(* The functions of pkg/meta, called on objects drawn from bounded sets.   *)
(***************************************************************************)
Absent == "<absent>"

AnnotationKeyOther == "example.org/key"

\* The values of the policy annotation, of the three timestamp annotations
\* (the text of a time or text that does not parse) and of another key.
PolicyTexts == Policies \cup {Absent, "orphan"}
TimeTexts == {Absent, "junk", "0", "1", "2"}
OtherTexts == {Absent, "v"}

Actions == {ActionCreate, ActionUpdate, ActionDelete}

\* The annotation map that holds the keys whose value is given.
AnnotationsOf(policy, pending, succeeded, failed, other) ==
    LET c == [k \in {AnnotationKeyManagementPolicy, AnnotationKeyExternalCreatePending,
                     AnnotationKeyExternalCreateSucceeded, AnnotationKeyExternalCreateFailed,
                     AnnotationKeyOther} |->
                 CASE k = AnnotationKeyManagementPolicy -> policy
                   [] k = AnnotationKeyExternalCreatePending -> pending
                   [] k = AnnotationKeyExternalCreateSucceeded -> succeeded
                   [] k = AnnotationKeyExternalCreateFailed -> failed
                   [] OTHER -> other]
    IN  [k \in {x \in DOMAIN c : c[x] # Absent} |-> c[k]]

ProbeAnnotations ==
    {AnnotationsOf(policy, pending, succeeded, failed, other) :
        policy \in PolicyTexts, pending \in TimeTexts, succeeded \in TimeTexts,
        failed \in TimeTexts, other \in OtherTexts}

\* The lists of finalizers of at most n entries.
RECURSIVE FinalizerLists(_)
FinalizerLists(n) ==
    IF n = 0 THEN {<< >>}
    ELSE LET shorter == FinalizerLists(n - 1)
         IN  shorter \cup {Append(f, x) : f \in shorter, x \in {FinalizerName, OtherFinalizer}}

Probed(op, arg, out) == probe' = [probe EXCEPT !.op = op, !.arg = arg, !.out = out]

ProbeIsActionAllowed ==
    /\ probe.op = ""
    /\ \E action \in Actions :
          Probed("IsActionAllowed", <<action>>, IsActionAllowed(probe.ann, action))
    /\ UNCHANGED <<managedVars, rateVars, world>>

ProbeExternalCreateIncomplete ==
    /\ probe.op = ""
    /\ Probed("ExternalCreateIncomplete", << >>, ExternalCreateIncomplete(probe.ann))
    /\ UNCHANGED <<managedVars, rateVars, world>>

ProbeRemoveFinalizer ==
    /\ probe.op = ""
    /\ \E finalizer \in {FinalizerName, OtherFinalizer} :
          Probed("RemoveFinalizer", <<finalizer>>, MetaRemoveFinalizer(probe.fin, finalizer))
    /\ UNCHANGED <<managedVars, rateVars, world>>

\* RemoveAnnotations(o, k) after AddAnnotations(o, {k: v}).
ProbeAddRemoveAnnotations ==
    /\ probe.op = ""
    /\ \E k \in {AnnotationKeyOther, AnnotationKeyExternalCreatePending}, v \in {"v", "w"} :
          Probed("AddRemoveAnnotations", <<k, v>>,
                 RemoveAnnotations(AddAnnotations(probe.ann, OneAnnotation(k, v)), {k}))
    /\ UNCHANGED <<managedVars, rateVars, world>>

\* What client.Update may answer a finalizer manager.
UpdateFaults == {"nil", "notfound", "conflict", "error"}

ProbeAPIAddFinalizer ==
    /\ probe.op = ""
    /\ \E fault \in UpdateFaults :
          Probed("APIFinalizer.AddFinalizer", <<fault>>, APIAddFinalizer(probe, fault))
    /\ UNCHANGED <<managedVars, rateVars, world>>

ProbeAPIRemoveFinalizer ==
    /\ probe.op = ""
    /\ \E fault \in UpdateFaults :
          Probed("APIFinalizer.RemoveFinalizer", <<fault>>, APIRemoveFinalizer(probe, fault))
    /\ UNCHANGED <<managedVars, rateVars, world>>

MetaInit ==
    /\ ManagedIdle
    /\ DispatcherIdle
    /\ LimiterIdle
    /\ \E a \in ProbeAnnotations, f \in FinalizerLists(MaxFinalizers) :
          probe = [NoProbe EXCEPT !.ann = a, !.fin = f]
    /\ WorldIdle

MetaNext ==
    \/ ProbeIsActionAllowed
    \/ ProbeExternalCreateIncomplete
    \/ ProbeRemoveFinalizer
    \/ ProbeAddRemoveAnnotations
    \/ ProbeAPIAddFinalizer
    \/ ProbeAPIRemoveFinalizer

MetaSpec == MetaInit /\ [][MetaNext]_vars

(***************************************************************************)
(* RetryingCriticalAnnotationUpdater.UpdateCriticalAnnotations on its own: *)
(* mg is the object it is handed, entry that object as it was handed over, *)
(* captured the annotations read at entry, calls the attempts made and,    *)
(* last, the return.  Other clients write the object between attempts.     *)
(***************************************************************************)
\* resource.IsAPIError: the error is a Kubernetes API status error.
IsAPIError(err) == err \in {"apierror", "notfound", "conflict"}

\* The objects the updater is handed: annotations set by Reconcile, a
\* finalizer list and a condition that may differ from the server's.
HandedObjects ==
    {[ann |-> a, fin |-> f, deleted |-> FALSE, cond |-> [NoConditions EXCEPT !.Ready = Creating]] :
        a \in {SetExternalCreatePending(NoAnnotations, TicksPerSecond),
               SetExternalCreatePending(
                   OneAnnotation(AnnotationKeyReconciliationPaused, "false"),
                   TicksPerSecond),
               SetExternalCreateFailed(
                   AddAnnotations(NoAnnotations, OneAnnotation(AnnotationKeyOther, "v")),
                   TicksPerSecond)},
        f \in {<< >>, <<FinalizerName>>}}

ServerObjects ==
    {[exists |-> TRUE, ann |-> a, fin |-> f, deleted |-> FALSE] :
        a \in {NoAnnotations,
               OneAnnotation(AnnotationKeyOther, "w"),
               SetExternalCreatePending(NoAnnotations, 2 * TicksPerSecond)},
        f \in {<< >>, <<FinalizerName>>}}

UpdaterInit ==
    /\ now = TicksPerSecond
    /\ srv \in ServerObjects
    /\ mg \in HandedObjects
    /\ entry = mg
    /\ captured = mg.ann
    /\ stale = FALSE
    /\ pc = "updater"
    /\ obs = NoObservation
    /\ connected = FALSE
    /\ ret = [requeue |-> FALSE, after |-> 0]
    /\ result = NoResult
    /\ calls = << >>
    /\ tries = 0
    /\ writes = 0
    /\ DispatcherIdle
    /\ LimiterIdle
    /\ ProbeIdle
    /\ WorldIdle

\* One run of the function handed to retry.OnError, and what OnError does
\* with its error: an API error is tried again, and so is any error when
\* every is set.
Attempt(every) ==
    /\ pc = "updater"
    /\ \E getFault \in {"nil", "apierror", "error"},
          updateFault \in {"nil", "apierror", "conflict", "error"} :
          LET gerr == GetErr(getFault)
              o == [Stored EXCEPT !.ann = AddAnnotations(Stored.ann, captured)]
              err == IF gerr # "nil" THEN gerr ELSE updateFault
              wrote == err = "nil"
              again == err # "nil" /\ (every \/ IsAPIError(err)) /\ tries + 1 < RetrySteps
              attempt == Call("Attempt", err, IF gerr # "nil" THEN "Get" ELSE "Update", 0)
          IN  /\ (gerr # "nil" => updateFault = "nil")
              /\ srv' = ServerAfter(o, wrote)
              /\ stale' = IF gerr = "nil" THEN FALSE ELSE stale
              /\ mg' = IF gerr # "nil" THEN mg ELSE MemoryAfter(o, TRUE)
              /\ tries' = tries + 1
              /\ IF again
                 THEN /\ calls' = Append(calls, attempt)
                      /\ UNCHANGED <<pc, result>>
                 ELSE /\ calls' = calls \o
                            <<attempt,
                              Call("UpdateCriticalAnnotations", err,
                                   IF err = "nil" THEN "" ELSE errUpdateCriticalAnnotations, 0)>>
                      /\ result' = [NoResult EXCEPT !.err = err]
                      /\ pc' = "returned"
    /\ UNCHANGED <<probe, world, rateVars, now, entry, obs, connected, ret, captured, writes>>

\* The updater retrying whatever the error is.
UpdaterAttemptAnyError == Attempt(TRUE)

UpdaterAttempt == Attempt(FALSE)

UpdaterNext ==
    \/ UpdaterAttempt
    \/ UserPause
    \/ UserDelete

UpdaterSpec == UpdaterInit /\ [][UpdaterNext]_vars

(***************************************************************************)
(* One pass of Reconcile over any object the server may hold: whatever     *)
(* policy, pause mark and creation timestamps its annotations carry, with  *)
(* or without the finalizer and a deletion timestamp.                      *)
(***************************************************************************)
CreateTimes == {Absent} \cup {RFC3339Format(t * TicksPerSecond) : t \in 0..2}

StoredObjects ==
    {[exists |-> TRUE,
      ann |-> AddAnnotations(AnnotationsOf(policy, pending, succeeded, failed, Absent),
                             IF paused THEN OneAnnotation(AnnotationKeyReconciliationPaused, "true")
                             ELSE NoAnnotations),
      fin |-> fin,
      deleted |-> deleted] :
        policy \in (Policies \ {""}) \cup {Absent},
        pending \in CreateTimes, succeeded \in CreateTimes, failed \in CreateTimes,
        paused \in BOOLEAN,
        fin \in {<< >>, <<FinalizerName>>},
        deleted \in BOOLEAN}

PassInit ==
    /\ now = TicksPerSecond
    /\ srv \in {o \in StoredObjects : o.deleted => o.fin # << >>}
    /\ mg = NoObject
    /\ entry = NoObject
    /\ stale = FALSE
    /\ pc = "idle"
    /\ obs = NoObservation
    /\ connected = FALSE
    /\ ret = [requeue |-> FALSE, after |-> 0]
    /\ result = NoResult
    /\ calls = << >>
    /\ captured = NoAnnotations
    /\ tries = 0
    /\ writes = 0
    /\ DispatcherIdle
    /\ LimiterIdle
    /\ ProbeIdle
    /\ WorldIdle

PassNext ==
    \/ Reconcile
    \/ Tick

PassSpec == PassInit /\ [][PassNext]_vars

(***************************************************************************)
(* Deletion under a host that runs every pass to its end and delivers the  *)
(* request again when the result asks for it: the object has a deletion    *)
(* timestamp, is not paused, permits deletion and is not create-incomplete.*)
(***************************************************************************)
DeletionInit ==
    /\ PassInit
    /\ srv.deleted
    /\ ~IsPaused(srv.ann)
    /\ ShouldDelete(srv.ann)
    /\ ~ExternalCreateIncomplete(srv.ann)

\* The work queue adds the request again after a result with Requeue or
\* RequeueAfter, or an error.
HostRedelivers ==
    /\ pc = "done"
    /\ result.requeue \/ result.after > 0 \/ result.err # "nil"
    /\ Requeue

\* The steps of Reconcile such an object can take.
DeletionPass ==
    \/ Load
    \/ Connect
    \/ Observe
    \/ CreationGrace
    \/ DeleteExternal
    \/ FinalizeDeletion
    \/ StatusUpdate
    \/ Disconnect

DeletionNext ==
    \/ DeletionPass
    \/ HostRedelivers
    \/ Tick

DeletionSpec == DeletionInit /\ [][DeletionNext]_vars

DeletionFair == DeletionSpec /\ WF_vars(DeletionPass) /\ WF_vars(HostRedelivers)

(***************************************************************************)
(* Creation with a provider that works: the external resource does not     *)
(* exist until Client.Create makes it, Observe reports whether it exists,  *)
(* every call succeeds, every pass runs to its end and the host delivers   *)
(* the request again when the result asks for it.                          *)
(***************************************************************************)
CreationInit ==
    /\ PassInit
    /\ ~srv.deleted
    /\ ~IsPaused(srv.ann)
    /\ GetAnnotation(srv.ann, AnnotationKeyManagementPolicy) \in {"", ManagementPolicyDefault}
    /\ ~ExternalCreateIncomplete(srv.ann)
    /\ GetExternalCreateSucceeded(srv.ann) <= now

\* The step ended a call, and no call of the pass has failed.
Succeeds == (\A i \in DOMAIN calls' : calls'[i].err = "nil") /\ tries' = 0

\* Observe reporting whether the external resource exists.
ObserveWorld == Observe /\ Succeeds /\ obs'.exists = world.exists

\* Client.Create making the external resource.
CreateExternal ==
    /\ CreateStep
    /\ Succeeds
    /\ world' = [exists |-> TRUE, creates |-> world.creates + 1]

CreationPass ==
    \/ Load /\ Succeeds
    \/ Connect /\ Succeeds
    \/ ObserveWorld
    \/ CreationGrace
    \/ AddFinalizer /\ Succeeds
    \/ PersistCreatePending /\ Succeeds
    \/ CreateExternal
    \/ UpdateCriticalAnnotations /\ Succeeds
    \/ LateInitUpdate /\ Succeeds
    \/ UpToDate
    \/ Update /\ Succeeds
    \/ StatusUpdate /\ Succeeds
    \/ Disconnect /\ Succeeds

CreationNext ==
    \/ CreationPass
    \/ HostRedelivers
    \/ Tick

CreationSpec == CreationInit /\ [][CreationNext]_vars

\* A pass runs to its return, the work queue delivers what it was asked to,
\* and time passes.
CreationFair ==
    /\ CreationSpec
    /\ WF_vars(CreationPass)
    /\ WF_vars(HostRedelivers)
    /\ SF_vars(Tick)

(***************************************************************************)
(* Reading the history of the current pass.                                *)
(***************************************************************************)
Called(op) == \E i \in DOMAIN calls : calls[i].op = op
Count(op) == Cardinality({i \in DOMAIN calls : calls[i].op = op})
Ops == [i \in DOMAIN calls |-> calls[i].op]
AllSucceeded == \A i \in DOMAIN calls : calls[i].err = "nil"

\* Get returned the object: a pass is under way or has just returned.
Loaded == pc # "idle" /\ calls # << >> /\ calls[1].err = "nil"
Returned == pc = "done" /\ Loaded

EntryPolicy == GetAnnotation(entry.ann, AnnotationKeyManagementPolicy)
EntryPaused == GetAnnotation(entry.ann, AnnotationKeyReconciliationPaused) = "true"
EntryDeletePermitted ==
    EntryPolicy \in {"", ManagementPolicyDefault, ManagementPolicyObserveDelete}
EntryOrphaned == entry.deleted /\ ~EntryDeletePermitted

CreateAnnotations(a) ==
    <<GetAnnotation(a, AnnotationKeyExternalCreatePending),
      GetAnnotation(a, AnnotationKeyExternalCreateSucceeded),
      GetAnnotation(a, AnnotationKeyExternalCreateFailed)>>

(***************************************************************************)
(* C1  Leak guard.  In a pass on an object that is not paused and is not   *)
(* deleted with deletion denied, if creation is incomplete on the loaded   *)
(* object the pass calls none of Connect, Observe, Create, Update, Delete; *)
(* it sets Creating and ReconcileError(errCreateIncomplete), issues one    *)
(* status update and returns Requeue=false, RequeueAfter=0.                *)
(***************************************************************************)
C1_Case ==
    /\ Loaded
    /\ ~EntryPaused
    /\ ~EntryOrphaned
    /\ ExternalCreateIncomplete(entry.ann)

C1_LeakGuard ==
    C1_Case =>
        /\ \A op \in {"Connect", "Observe", "Create", "Update", "Delete"} : ~Called(op)
        /\ pc = "done" =>
              /\ mg.cond.Ready = Creating
              /\ mg.cond.Synced = ReconcileError(errCreateIncomplete)
              /\ Count("StatusUpdate") = 1
              /\ result.requeue = FALSE
              /\ result.after = 0

C1_Witness == C1_Case /\ pc = "done" /\ Called("StatusUpdate")

(***************************************************************************)
(* C2  Persist before create.  Client.Create is called only after the one  *)
(* plain Update that carries the pending annotation just set from the      *)
(* clock has returned success in the same pass, and the server then holds  *)
(* that annotation; after a failed Update (a conflict or any other error)  *)
(* Create is not called.                                                   *)
(***************************************************************************)
C2_PersistBeforeCreate ==
    /\ Count("UpdatePending") <= 1
    /\ \A i \in DOMAIN calls :
          calls[i].op = "Create" =>
              \E j \in 2..(i - 1) :
                  /\ calls[j].op = "UpdatePending"
                  /\ calls[j].err = "nil"
                  /\ calls[j - 1].op = "SetExternalCreatePending"
                  /\ calls[j].arg = calls[j - 1].arg
                  /\ calls[j - 1].arg = ToString(calls[j - 1].at)
    /\ \A j \in DOMAIN calls :
          (calls[j].op = "UpdatePending" /\ calls[j].err # "nil") => ~Called("Create")
    /\ \A j \in DOMAIN calls :
          (calls[j].op = "UpdatePending" /\ pc = "create" /\ ~stale) =>
              GetAnnotation(srv.ann, AnnotationKeyExternalCreatePending) = calls[j].arg

C2_Witness == pc = "done" /\ Called("Create") /\ Count("UpdatePending") = 1

(***************************************************************************)
(* C3  No leaks across passes.  While the stored object has a pending      *)
(* annotation newer than both succeeded and failed, no step of a pass      *)
(* that started in that situation calls Client.Create or changes any of    *)
(* the three create annotations; only another actor's write does.          *)
(***************************************************************************)
C3_Guarded ==
    /\ srv.exists
    /\ ExternalCreateIncomplete(srv.ann)
    /\ (pc = "idle" \/ (Loaded /\ ExternalCreateIncomplete(entry.ann)))

C3_Step ==
    (C3_Guarded /\ writes' = writes) =>
        /\ CreateAnnotations(srv'.ann) = CreateAnnotations(srv.ann)
        /\ ~(\E i \in DOMAIN calls' : calls'[i].op = "Create")

C3_NoLeak == [][C3_Step]_vars

C3_Witness ==
    /\ C3_Guarded
    /\ pc = "done"
    /\ GetAnnotation(srv.ann, AnnotationKeyExternalCreateSucceeded) = ""
    /\ GetAnnotation(srv.ann, AnnotationKeyExternalCreateFailed) = ""

(***************************************************************************)
(* C4  Paused short circuit.  When the loaded object has krateo.io/paused  *)
(* equal to "true" the pass calls none of Connect, Observe, Create,        *)
(* Update, Delete, Disconnect; it sets Synced to ReconcilePaused, issues   *)
(* exactly one status update and returns the empty result with the error   *)
(* of that status update, wrapped (nil when it succeeded).                 *)
(***************************************************************************)
C4_Case == Loaded /\ EntryPaused

C4_Paused ==
    C4_Case =>
        /\ \A op \in {"Connect", "Observe", "Create", "Update", "Delete", "Disconnect"} :
              ~Called(op)
        /\ pc = "done" =>
              /\ mg.cond.Synced = ReconcilePaused
              /\ Ops = <<"Get", "StatusUpdate">>
              /\ result.requeue = FALSE
              /\ result.after = 0
              /\ result.err = IF calls[2].err = "nil" THEN "nil" ELSE errUpdateManagedStatus

C4_Witness == C4_Case /\ pc = "done" /\ result.err = errUpdateManagedStatus

(***************************************************************************)
(* C5  Management policy.  Whatever the policy of the loaded object,       *)
(* Client.Create and Client.Update are not called under observe-delete or  *)
(* observe, and Client.Delete is not called under observe-create-update or *)
(* observe; under the default policy (set or absent) all three may be.     *)
(***************************************************************************)
C5_PolicyEnforced ==
    Loaded =>
        /\ EntryPolicy \in {ManagementPolicyObserveDelete, ManagementPolicyObserve} =>
              ~Called("Create") /\ ~Called("Update")
        /\ EntryPolicy \in {ManagementPolicyObserveCreateUpdate, ManagementPolicyObserve} =>
              ~Called("Delete")

C5_Witness ==
    /\ Returned
    /\ EntryPolicy = ManagementPolicyObserveDelete
    /\ Called("Observe")
    /\ obs.exists /\ ~obs.upToDate
    /\ ~entry.deleted
    /\ mg.cond.Synced = ReconcileSuccess

(***************************************************************************)
(* C6  Create ordering.  A pass that calls Client.Create has had           *)
(* AddFinalizer return success before it, and a failed AddFinalizer ends   *)
(* the pass without Create.  When every call of such a pass succeeds the   *)
(* calls are, in order, AddFinalizer, Update with the pending annotation,  *)
(* Create, UpdateCriticalAnnotations carrying external-create-succeeded,   *)
(* and the status update with Creating and ReconcileSuccess; the result    *)
(* has Requeue=true.                                                       *)
(***************************************************************************)
C6_CreateOrdering ==
    /\ \A i \in DOMAIN calls :
          calls[i].op = "Create" =>
              \E j \in 1..(i - 1) : calls[j].op = "AddFinalizer" /\ calls[j].err = "nil"
    /\ \A j \in DOMAIN calls :
          (calls[j].op = "AddFinalizer" /\ calls[j].err # "nil") => ~Called("Create")
    /\ (Returned /\ Called("Create") /\ AllSucceeded) =>
          /\ Ops = <<"Get", "Connect", "Observe", "AddFinalizer",
                     "SetExternalCreatePending", "UpdatePending", "Create",
                     "SetExternalCreateSucceeded", "UpdateCriticalAnnotations",
                     "StatusUpdate", "Disconnect">>
          /\ GetAnnotation(captured, AnnotationKeyExternalCreateSucceeded) = calls[8].arg
          /\ GetAnnotation(srv.ann, AnnotationKeyExternalCreateSucceeded) = calls[8].arg
          /\ calls[8].arg = ToString(calls[8].at)
          /\ mg.cond.Ready = Creating
          /\ mg.cond.Synced = ReconcileSuccess
          /\ result = [requeue |-> TRUE, after |-> 0, err |-> "nil"]

C6_Witness == Returned /\ Called("Create") /\ AllSucceeded /\ result.requeue

(***************************************************************************)
(* C7  Finalizer removal.  On a deleted object whose policy permits        *)
(* deletion, RemoveFinalizer is called only in a pass whose Observe        *)
(* reported that the external resource does not exist, outside the         *)
(* creation grace window, and never in a pass that called Client.Delete.   *)
(***************************************************************************)
C7_Case == Loaded /\ entry.deleted /\ EntryDeletePermitted /\ Called("RemoveFinalizer")

C7_FinalizerRemoval ==
    C7_Case =>
        /\ \E i \in DOMAIN calls : calls[i].op = "Observe" /\ calls[i].err = "nil"
        /\ ~obs.exists
        /\ ~Called("Delete")
        /\ LET t == RFC3339Parse(GetAnnotation(entry.ann, AnnotationKeyExternalCreateSucceeded))
           IN  t = ZeroTime \/ now - t >= GracePeriod

C7_Witness ==
    /\ C7_Case
    /\ pc = "done"
    /\ ~srv.exists
    /\ GetAnnotation(entry.ann, AnnotationKeyExternalCreateSucceeded) # ""

(***************************************************************************)
(* C8  Between the SetExternalCreatePending of a pass and its              *)
(* SetExternalCreateSucceeded or SetExternalCreateFailed there is exactly  *)
(* one call of Client.Create.                                              *)
(***************************************************************************)
C8_OneCreate ==
    \A k \in DOMAIN calls :
        calls[k].op \in {"SetExternalCreateSucceeded", "SetExternalCreateFailed"} =>
            \E j \in 1..(k - 1) :
                /\ calls[j].op = "SetExternalCreatePending"
                /\ Cardinality({i \in (j + 1)..(k - 1) : calls[i].op = "Create"}) = 1
                /\ \A i \in (j + 1)..(k - 1) : calls[i].op # "SetExternalCreatePending"

C8_Witness == pc = "done" /\ Called("SetExternalCreateFailed")

(***************************************************************************)
(* C9  Requeue after an error.  A pass that returns with Synced set to     *)
(* ReconcileError has Requeue=true in its result, except the leak guard:   *)
(* with ReconcileError(errCreateIncomplete) the result has Requeue=false   *)
(* and RequeueAfter=0.                                                     *)
(***************************************************************************)
C9_ErrorPath == Returned /\ mg.cond.Synced.reason = "ReconcileError"

C9_RequeueAfterError ==
    C9_ErrorPath =>
        IF mg.cond.Synced.msg = errCreateIncomplete
        THEN ~result.requeue /\ result.after = 0
        ELSE result.requeue

C9_Witness ==
    /\ C9_ErrorPath
    /\ mg.cond.Synced.msg = errReconcileUpdate
    /\ result.requeue

\* C9 as first stated: after any error path that sets a condition the result
\* has Requeue=true or a positive RequeueAfter.
C9_AlwaysRequeued == C9_ErrorPath => (result.requeue \/ result.after > 0)

(***************************************************************************)
(* C10  Creation grace.  When Observe reports that the external resource   *)
(* does not exist, the policy is not observe, and the loaded object's      *)
(* external-create-succeeded is set and less than the grace period old,    *)
(* the pass calls no Create, Update or Delete, adds and removes no         *)
(* finalizer, writes no status and no annotation, and returns              *)
(* Requeue=true with a nil error, whether the object is deleted or not.    *)
(***************************************************************************)
C10_Case ==
    /\ Loaded
    /\ \E i \in DOMAIN calls : calls[i].op = "Observe" /\ calls[i].err = "nil"
    /\ pc # "observed"
    /\ ~obs.exists
    /\ EntryPolicy # ManagementPolicyObserve
    /\ LET t == RFC3339Parse(GetAnnotation(entry.ann, AnnotationKeyExternalCreateSucceeded))
       IN  t # ZeroTime /\ now - t < GracePeriod

C10_CreationGrace ==
    C10_Case =>
        /\ Ops \in {<<"Get", "Connect", "Observe">>,
                    <<"Get", "Connect", "Observe", "Disconnect">>}
        /\ mg = entry
        /\ result = [requeue |-> TRUE, after |-> 0, err |-> "nil"]

C10_Witness == C10_Case /\ pc = "done" /\ entry.deleted

(***************************************************************************)
(* C11  Orphan short circuit.  When the loaded object is not paused, is    *)
(* deleted and its policy denies deletion, the pass calls no Connect,      *)
(* Observe or Delete and calls RemoveFinalizer once.  When that succeeds   *)
(* the pass returns Requeue=false with a nil error and no status update;   *)
(* on a conflict it returns Requeue=true with no status update; on any     *)
(* other error it sets Deleting and ReconcileError, issues one status      *)
(* update and returns Requeue=true.                                        *)
(***************************************************************************)
C11_Case == Loaded /\ ~EntryPaused /\ EntryOrphaned

C11_OrphanShortCircuit ==
    C11_Case =>
        /\ \A op \in {"Connect", "Observe", "Delete", "Create", "Update"} : ~Called(op)
        /\ pc # "loaded" => Count("RemoveFinalizer") = 1 /\ calls[2].op = "RemoveFinalizer"
        /\ pc = "done" =>
              IF calls[2].err = "nil"
              THEN /\ Ops = <<"Get", "RemoveFinalizer">>
                   /\ result = [requeue |-> FALSE, after |-> 0, err |-> "nil"]
              ELSE IF calls[2].err = "conflict"
              THEN /\ Ops = <<"Get", "RemoveFinalizer">>
                   /\ result = [requeue |-> TRUE, after |-> 0, err |-> "nil"]
              ELSE /\ Ops = <<"Get", "RemoveFinalizer", "StatusUpdate">>
                   /\ mg.cond.Ready = Deleting
                   /\ mg.cond.Synced = ReconcileError(errUpdateObject)
                   /\ result.requeue /\ result.after = 0

C11_Witness ==
    /\ C11_Case
    /\ pc = "done"
    /\ calls[2].err = "nil"
    /\ FinalizerExists(entry.fin, FinalizerName)
    /\ ~FinalizerExists(srv.fin, FinalizerName)

(***************************************************************************)
(* C12  Deletion path.  On a deleted object whose policy permits deletion  *)
(* and whose Observe reports that the external resource exists, the pass   *)
(* calls Client.Delete exactly once and does not call RemoveFinalizer; the *)
(* status written is Deleting with ReconcileSuccess when Delete succeeded  *)
(* and with ReconcileError("delete failed") when it failed; the result has *)
(* Requeue=true in both cases.                                             *)
(***************************************************************************)
C12_Case ==
    /\ Loaded
    /\ entry.deleted
    /\ EntryDeletePermitted
    /\ \E i \in DOMAIN calls : calls[i].op = "Observe" /\ calls[i].err = "nil"
    /\ obs.exists

C12_DeletionPath ==
    C12_Case =>
        /\ ~Called("RemoveFinalizer")
        /\ Count("Delete") <= 1
        /\ pc \in {"status", "disconnect", "done"} =>
              /\ Count("Delete") = 1
              /\ calls[4].op = "Delete"
              /\ mg.cond.Ready = Deleting
              /\ mg.cond.Synced = IF calls[4].err = "nil" THEN ReconcileSuccess
                                  ELSE ReconcileError(errReconcileDelete)
              /\ mg.fin = entry.fin
        /\ pc = "done" =>
              /\ Ops = <<"Get", "Connect", "Observe", "Delete", "StatusUpdate", "Disconnect">>
              /\ result.requeue
              /\ result.after = 0

C12_Witness == C12_Case /\ pc = "done" /\ calls[4].err = "error"

(***************************************************************************)
(* C13  Error propagation.  The error a pass returns is non-nil only when  *)
(* the first Get failed with an error other than not-found (the error is   *)
(* then that one, wrapped) or when the status update of the path taken     *)
(* failed (then that one, wrapped).  An error of Connect, Observe, Create, *)
(* Update, Delete, AddFinalizer, RemoveFinalizer or                        *)
(* UpdateCriticalAnnotations is never the error returned.  When it is not  *)
(* a conflict it is recorded in Synced as ReconcileError (after a failed   *)
(* Create, Synced carries the create error whether or not                  *)
(* UpdateCriticalAnnotations failed too); a conflict from RemoveFinalizer, *)
(* Connect, Observe, AddFinalizer or Create is not recorded: the pass      *)
(* returns Requeue=true and a nil error without a status update.           *)
(***************************************************************************)
StepOps == {"Connect", "Observe", "Create", "Update", "Delete", "AddFinalizer",
            "RemoveFinalizer", "UpdateCriticalAnnotations"}

ConflictChecked == {"RemoveFinalizer", "Connect", "Observe", "AddFinalizer", "Create"}

Wrapper(op) ==
    CASE op = "Connect" -> errReconcileConnect
      [] op = "Observe" -> errReconcileObserve
      [] op = "Create" -> errReconcileCreate
      [] op = "Update" -> errReconcileUpdate
      [] op = "Delete" -> errReconcileDelete
      [] op \in {"AddFinalizer", "RemoveFinalizer"} -> errUpdateObject
      [] op = "UpdateCriticalAnnotations" ->
            IF Called("SetExternalCreateFailed") THEN errReconcileCreate
            ELSE errUpdateManagedAnnotations

C13_ReturnedError ==
    pc = "done" =>
        /\ result.err \in {"nil", errGetManaged, errUpdateManagedStatus}
        /\ result.err = errGetManaged <=> calls[1].err \notin {"nil", "notfound"}
        /\ result.err = errUpdateManagedStatus <=>
              \E i \in DOMAIN calls : calls[i].op = "StatusUpdate" /\ calls[i].err # "nil"

C13_ErrorPropagation ==
    /\ C13_ReturnedError
    /\ pc = "done" =>
          \A i \in DOMAIN calls :
              (calls[i].op \in StepOps /\ calls[i].err # "nil") =>
                  IF calls[i].err = "conflict" /\ calls[i].op \in ConflictChecked
                  THEN /\ mg.cond.Synced = NoCondition
                       /\ ~Called("StatusUpdate")
                       /\ result = [requeue |-> TRUE, after |-> 0, err |-> "nil"]
                  ELSE mg.cond.Synced = ReconcileError(Wrapper(calls[i].op))

C13_Witness ==
    /\ Returned
    /\ \E i \in DOMAIN calls : calls[i].op = "Observe" /\ calls[i].err = "error"
    /\ mg.cond.Synced = ReconcileError(errReconcileObserve)
    /\ result.err = "nil"

\* C13 as first stated: every error of one of these calls is recorded in
\* Synced, and only a failed Get or a failed status update is returned.
C13_EveryErrorRecorded ==
    /\ C13_ReturnedError
    /\ pc = "done" =>
          \A i \in DOMAIN calls :
              (calls[i].op \in StepOps /\ calls[i].err # "nil") =>
                  mg.cond.Synced.reason = "ReconcileError"

(***************************************************************************)
(* C14  Conflict handling.  Whenever RemoveFinalizer, Connect, Observe,    *)
(* Delete, AddFinalizer, the Update of the pending annotation, Create, the *)
(* late-initialization Update or Client.Update fails with a conflict, the  *)
(* pass returns Requeue=true with a nil error and writes no status.        *)
(***************************************************************************)
ConflictRequeued == {"RemoveFinalizer", "Connect", "Observe", "AddFinalizer",
                     "UpdatePending", "Create"}

ConflictRecorded == {"Delete", "UpdateLateInit", "Update"}

C14_ConflictAt(i) ==
    calls[i].err = "conflict" /\ calls[i].op \in ConflictRequeued \cup ConflictRecorded

C14_EveryConflictRequeued ==
    pc = "done" =>
        \A i \in DOMAIN calls :
            C14_ConflictAt(i) =>
                /\ ~Called("StatusUpdate")
                /\ result = [requeue |-> TRUE, after |-> 0, err |-> "nil"]

\* A pass whose Client.Update failed with a conflict and that went on to write
\* the status.
C14_Witness ==
    /\ pc = "done"
    /\ \E i \in DOMAIN calls : calls[i].op = "Update" /\ calls[i].err = "conflict"
    /\ Called("StatusUpdate")

\* What the code does: the conflict is tested for after six of the nine steps;
\* after Delete, the late-initialization Update and Client.Update it is
\* handled like any other error.
C14_ConflictHandling ==
    pc = "done" =>
        \A i \in DOMAIN calls :
            C14_ConflictAt(i) =>
                IF calls[i].op \in ConflictRequeued
                THEN /\ ~Called("StatusUpdate")
                     /\ mg.cond = NoConditions
                     /\ result = [requeue |-> TRUE, after |-> 0, err |-> "nil"]
                ELSE /\ Count("StatusUpdate") = 1
                     /\ mg.cond.Synced =
                           ReconcileError(CASE calls[i].op = "Delete" -> errReconcileDelete
                                            [] calls[i].op = "UpdateLateInit" -> errUpdateManaged
                                            [] calls[i].op = "Update" -> errReconcileUpdate)
                     /\ result.requeue /\ result.after = 0

(***************************************************************************)
(* C15  Disconnect on every return.  A pass in which Connect returned a    *)
(* client calls Disconnect exactly once, as its last call (after every     *)
(* call of the external client and after the status update), whichever     *)
(* return is taken; a pass without a client never calls it; the result and *)
(* the error the pass returns are those set before Disconnect, whatever    *)
(* Disconnect returned.                                                    *)
(***************************************************************************)
C15_Step ==
    /\ \A i \in 1..(Len(calls') - 1) : calls'[i].op # "Disconnect"
    /\ (pc # "done" /\ pc' = "done") =>
          IF \E i \in DOMAIN calls' : calls'[i].op = "Connect" /\ calls'[i].err = "nil"
          THEN /\ pc = "disconnect"
               /\ calls'[Len(calls')].op = "Disconnect"
               /\ calls # << >> /\ calls[Len(calls)].op # "Disconnect"
               /\ result' = result
          ELSE \A i \in DOMAIN calls' : calls'[i].op # "Disconnect"

C15_DisconnectAlways == [][C15_Step]_vars

C15_Witness ==
    /\ pc = "done"
    /\ calls # << >>
    /\ calls[Len(calls)] = Call("Disconnect", "error", "", 0)
    /\ Called("StatusUpdate")
    /\ result.err = "nil"

(***************************************************************************)
(* C16  Load.  When Get returns not-found the pass returns the empty       *)
(* result and a nil error; when Get returns any other error the pass       *)
(* returns the empty result and that error wrapped with "cannot get        *)
(* managed resource"; in both cases Get is the only call of the pass.      *)
(***************************************************************************)
C16_Case == calls # << >> /\ calls[1].err # "nil"

C16_Load ==
    /\ calls # << >> => calls[1].op = "Get"
    /\ C16_Case =>
          /\ pc = "done"
          /\ Len(calls) = 1
          /\ mg = NoObject
          /\ result = [requeue |-> FALSE, after |-> 0,
                       err |-> IF calls[1].err = "notfound" THEN "nil" ELSE errGetManaged]

C16_Witness == C16_Case /\ calls[1].err = "notfound" /\ ~srv.exists /\ result = NoResult

(***************************************************************************)
(* Reading the calls of the dispatcher.                                    *)
(***************************************************************************)
CallOps(p) == [i \in DOMAIN caller[p].calls |-> caller[p].calls[i].op]

\* The call of p has returned.
CallReturned(p) == caller[p].pc \in {"delayed", "forwarded"}

\* The call of p found its item outside, or inside, the limited set.
FirstEncounter(p) == caller[p].calls # << >> /\ ~caller[p].calls[1].limited
ReturningRequest(p) == caller[p].calls # << >> /\ caller[p].calls[1].limited

\* No other worker has entered Reconcile.
Alone(p) == \A q \in Callers \ {p} : caller[q].pc = "idle"

(***************************************************************************)
(* C17  Dispatcher, first encounter.  A call of Reconcile that finds its   *)
(* item outside the limited set asks the limiter's When once, for that     *)
(* call.  When the delay d is greater than 0 the call inserts the item     *)
(* and returns RequeueAfter = d with a nil error, and the inner reconciler *)
(* is not called; when d is 0 the call calls Forget, changes nothing in    *)
(* the limited set, and returns the result and error the inner reconciler  *)
(* returned.  While the call is the only one, the limited set after it is  *)
(* the item alone in the first case and empty in the second.               *)
(***************************************************************************)
C17_Case(p) == CallReturned(p) /\ FirstEncounter(p)

C17_FirstEncounter ==
    \A p \in Callers :
        C17_Case(p) =>
            LET c == caller[p]
                d == c.calls[2].d
            IN  /\ c.calls[2].op = "When"
                /\ IF d > 0
                   THEN /\ CallOps(p) = <<"RLock", "When", "Insert">>
                        /\ c.ret = [requeue |-> FALSE, after |-> d, err |-> NoError]
                        /\ Alone(p) => limited = {Item(c.req)}
                   ELSE /\ d = 0
                        /\ CallOps(p) = <<"RLock", "When", "Forget", "Inner">>
                        /\ c.ret = c.calls[4].ret
                        /\ Alone(p) => limited = {}

\* Both cases have happened: one worker was delayed, another was forwarded
\* with an error of the inner reconciler.
C17_Witness ==
    \E p, q \in Callers :
        /\ C17_Case(p) /\ caller[p].pc = "delayed" /\ Item(caller[p].req) \in limited
        /\ C17_Case(q) /\ caller[q].pc = "forwarded" /\ caller[q].ret.err = ErrBoom

(***************************************************************************)
(* C18  Dispatcher, returning request.  A call of Reconcile that finds its *)
(* item in the limited set deletes it, does not ask the limiter's When,    *)
(* calls Forget, and forwards to the inner reconciler, whose result and    *)
(* error it returns unchanged, whatever delay the limiter would answer.    *)
(* While the call is the only one, the item is out of the limited set      *)
(* after it.                                                               *)
(***************************************************************************)
C18_Case(p) == CallReturned(p) /\ ReturningRequest(p)

C18_ReturningRequest ==
    \A p \in Callers :
        C18_Case(p) =>
            LET c == caller[p]
            IN  /\ CallOps(p) = <<"RLock", "Delete", "Forget", "Inner">>
                /\ c.pc = "forwarded"
                /\ c.ret = c.calls[4].ret
                /\ Alone(p) => Item(c.req) \notin limited

\* The case of the tests: a request that was delayed once comes back alone
\* and is forwarded to an inner reconciler that returns Requeue: true.
C18_Witness ==
    \E p \in Callers :
        /\ C18_Case(p)
        /\ Alone(p)
        /\ caller[p].delays = 1
        /\ caller[p].ret = [requeue |-> TRUE, after |-> 0, err |-> NoError]

\* The call of p was answered: a positive RequeueAfter and no call of the
\* inner reconciler, or a forward to the inner reconciler.
C19_Answered(p) ==
    LET c == caller[p]
        inner == {i \in DOMAIN c.calls : c.calls[i].op = "Inner"}
    IN  \/ c.pc = "delayed" /\ c.ret.after > 0 /\ c.ret.err = NoError /\ inner = {}
        \/ c.pc = "forwarded" /\ Cardinality(inner) = 1

\* The workers that were handed the request of p, p among them.
C19_SameItem(p) == {q \in Callers : caller[q].req = caller[p].req}

C19_Delivered(p) == caller[p].pc # "idle"

Min(a, b) == IF a <= b THEN a ELSE b

\* The calls of When for the item so far were never more than 2*maxDelay
\* apart, and no more than that has passed since the last of them.
Consecutive(item) ==
    LET h == History(item)
    IN  /\ ~h.gap
        /\ h.delays # << >> => lclock - h.last <= 2 * lcfg.maxDelay

(***************************************************************************)
(* C20  Exponential limiter schedule.  For an item not seen before, the    *)
(* n-th call of When in a row, with no two calls more than 2*maxDelay      *)
(* apart, returns min(baseDelay * 2^(n-1), maxDelay), also when the        *)
(* product overflows a Duration; after n such calls NumRequeues of the     *)
(* item is n; NumRequeues of an item never seen is 0.                      *)
(***************************************************************************)
C20_Schedule ==
    \A item \in Items :
        LET h == History(item)
            n == Len(h.delays)
        IN  /\ n = 0 => NumRequeues(item) = 0
            /\ Consecutive(item) =>
                  /\ NumRequeues(item) = n
                  /\ \A i \in 1..n :
                        h.delays[i] = Min(lcfg.baseDelay * Pow2(i - 1), lcfg.maxDelay)

\* The schedule of TestWhen has been returned, with NumRequeues at five,
\* while the other item was never seen.
C20_Witness ==
    \E item \in Items :
        /\ lcfg = [baseDelay |-> 1, maxDelay |-> 5]
        /\ Consecutive(item)
        /\ History(item).delays = <<1, 2, 4, 5, 5>>
        /\ NumRequeues(item) = 5
        /\ \E other \in Items \ {item} :
              History(other).delays = << >> /\ NumRequeues(other) = 0

\* What the code does: the schedule holds while baseDelay is at most
\* maxDelay and the product is not the float64 of math.MaxInt64 exactly;
\* the first call returns baseDelay whatever maxDelay is, and at that
\* product the delay is maxDelay or the smallest Duration.
C20_ScheduleInRange ==
    \A item \in Items :
        LET h == History(item)
            n == Len(h.delays)
        IN  /\ n = 0 => NumRequeues(item) = 0
            /\ Consecutive(item) =>
                  /\ NumRequeues(item) = n
                  /\ \A i \in 1..n :
                        LET product == lcfg.baseDelay * Pow2(i - 1)
                        IN  IF i = 1 THEN h.delays[i] = lcfg.baseDelay
                            ELSE IF product = FloatMaxDuration
                            THEN h.delays[i] \in {lcfg.maxDelay, MinDuration}
                            ELSE h.delays[i] = Min(product, lcfg.maxDelay)

\* The conversion has overflowed: When returned the smallest Duration.
C20_Overflowed ==
    \E item \in Items :
        /\ Consecutive(item)
        /\ \E i \in DOMAIN History(item).delays : History(item).delays[i] = MinDuration

\* This step is a call of When for the item, and the delay it returned.
WhenCalled(item) ==
    /\ item \in DOMAIN lhist'
    /\ Len(lhist'[item].delays) = Len(History(item).delays) + 1
Answer(item) == lhist'[item].delays[Len(lhist'[item].delays)]

\* The item has an entry that was last attempted more than 2*maxDelay ago.
Elapsed(item) ==
    /\ item \in DOMAIN failures
    /\ lclock - failures[item].LastAttempt > 2 * lcfg.maxDelay

(***************************************************************************)
(* C21  Exponential limiter idle pass.  When the item has an entry and     *)
(* more than 2*maxDelay has passed since its LastAttempt, When returns 0   *)
(* and leaves the whole map as it is: Attempts and LastAttempt are kept    *)
(* and the entry is not deleted.  The entry stays idle through every step  *)
(* that keeps it, so every further When returns 0 until Forget deletes     *)
(* the entry; the When after that returns baseDelay and stores Attempts 1. *)
(***************************************************************************)
C21_Step ==
    \A item \in Items :
        /\ WhenCalled(item) /\ Elapsed(item) =>
              Answer(item) = 0 /\ failures' = failures
        /\ Elapsed(item) /\ item \in DOMAIN failures' =>
              failures'[item] = failures[item] /\ Elapsed(item)'
        /\ WhenCalled(item) /\ item \notin DOMAIN failures =>
              /\ Answer(item) = lcfg.baseDelay
              /\ failures'[item] = [Attempts |-> 1, LastAttempt |-> lclock]

C21_IdlePass == [][C21_Step]_vars

\* Two idle passes in a row, Forget, and a fresh start: with base 1 the
\* calls returned 1, 0, 0, 1 and the entry counts one attempt again.
C21_Witness ==
    \E item \in Items :
        /\ lcfg.baseDelay = 1
        /\ History(item).delays = <<1, 0, 0, 1>>
        /\ failures[item].Attempts = 1

\* The step deleted the entry of the item.
Deleted(item) == item \in DOMAIN failures /\ item \notin DOMAIN failures'

(***************************************************************************)
(* C22  Exponential limiter Forget.  Forget changes something exactly when *)
(* the item has an entry whose LastAttempt is more than 2*maxDelay old,    *)
(* and what it does then is delete that entry: Forget of an active entry   *)
(* keeps Attempts and LastAttempt, Forget of an unknown item changes       *)
(* nothing, and the entries of the other items are never touched.          *)
(***************************************************************************)
C22_Step ==
    \A item \in Items :
        Deleted(item) =>
            /\ Elapsed(item)
            /\ failures' = [k \in DOMAIN failures \ {item} |-> failures[k]]
            /\ UNCHANGED <<lclock, lhist, lcfg>>

C22_Forget ==
    /\ [](\A item \in Items : Elapsed(item) <=> ENABLED <<Forget(item)>>_vars)
    /\ [][C22_Step]_vars

\* Forget has deleted an entry while the other item's entry, which is still
\* active, stands with its two attempts.
C22_Witness ==
    \E item \in Items, other \in Items :
        /\ item # other
        /\ History(item).delays # << >>
        /\ item \notin DOMAIN failures
        /\ other \in DOMAIN failures
        /\ failures[other].Attempts = 2
        /\ ~Elapsed(other)

(***************************************************************************)
(* Reading a call of a function of pkg/meta.                               *)
(***************************************************************************)
ProbePolicy == GetAnnotation(probe.ann, AnnotationKeyManagementPolicy)

(***************************************************************************)
(* C23  IsActionAllowed matches the policy table.  With the policy         *)
(* annotation absent, empty or default, create, update and delete are      *)
(* allowed; with observe-create-update, create and update are allowed and  *)
(* delete is not; with observe-delete, delete is allowed and create and    *)
(* update are not; with observe, none is allowed.                          *)
(***************************************************************************)
C23_Table(policy, action) ==
    CASE policy \in {"", ManagementPolicyDefault} -> TRUE
      [] policy = ManagementPolicyObserveCreateUpdate -> action \in {ActionCreate, ActionUpdate}
      [] policy = ManagementPolicyObserveDelete -> action = ActionDelete
      [] policy = ManagementPolicyObserve -> FALSE

C23_PolicyTable ==
    probe.op = "IsActionAllowed" /\ ProbePolicy \in Policies =>
        probe.out = C23_Table(ProbePolicy, probe.arg[1])

\* Delete was asked about under observe-delete, and was allowed.
C23_Witness ==
    /\ probe.op = "IsActionAllowed"
    /\ ProbePolicy = ManagementPolicyObserveDelete
    /\ probe.arg = <<ActionDelete>>
    /\ probe.out = TRUE

\* The time an annotation of the probed object stands for: the zero time
\* when it is absent or does not parse.
ProbeTime(key) ==
    LET text == GetAnnotation(probe.ann, key)
    IN  CASE text = "1" -> TicksPerSecond
          [] text = "2" -> 2 * TicksPerSecond
          [] OTHER -> ZeroTime

(***************************************************************************)
(* C24  ExternalCreateIncomplete is true exactly when the pending time is  *)
(* not the zero time and is strictly later than the later of the           *)
(* succeeded and failed times, an absent or unparseable annotation         *)
(* counting as the zero time; it is false when pending equals the later    *)
(* of the two.                                                             *)
(***************************************************************************)
C24_Incomplete ==
    probe.op = "ExternalCreateIncomplete" =>
        LET pending == ProbeTime(AnnotationKeyExternalCreatePending)
            succeeded == ProbeTime(AnnotationKeyExternalCreateSucceeded)
            failed == ProbeTime(AnnotationKeyExternalCreateFailed)
        IN  probe.out = (/\ pending # ZeroTime
                         /\ pending > succeeded
                         /\ pending > failed)

\* Pending equals the failed time, which is the later of the two results,
\* and succeeded does not parse: creation is not incomplete.
C24_Witness ==
    /\ probe.op = "ExternalCreateIncomplete"
    /\ GetAnnotation(probe.ann, AnnotationKeyExternalCreatePending) = "2"
    /\ GetAnnotation(probe.ann, AnnotationKeyExternalCreateFailed) = "2"
    /\ GetAnnotation(probe.ann, AnnotationKeyExternalCreateSucceeded) = "junk"
    /\ probe.out = FALSE

\* The list without the entries that equal the finalizer, the others in
\* their order.
RECURSIVE Without(_, _)
Without(f, finalizer) ==
    IF f = << >> THEN << >>
    ELSE IF Head(f) = finalizer THEN Without(Tail(f), finalizer)
         ELSE <<Head(f)>> \o Without(Tail(f), finalizer)

Occurrences(f, finalizer) == Cardinality({i \in DOMAIN f : f[i] = finalizer})

(***************************************************************************)
(* C25  meta.RemoveFinalizer removes every occurrence of the finalizer     *)
(* from the list, also from a list that holds it more than once, and       *)
(* keeps the other finalizers in their order.                              *)
(***************************************************************************)
C25_RemovesAll ==
    probe.op = "RemoveFinalizer" =>
        /\ ~probe.out.panic
        /\ probe.out.f = Without(probe.fin, probe.arg[1])

\* RemoveFinalizer was called on a list that holds the finalizer twice and
\* another finalizer.
C25_Witness ==
    /\ probe.op = "RemoveFinalizer"
    /\ Occurrences(probe.fin, probe.arg[1]) = 2
    /\ Len(probe.fin) = 3

\* What the code does: a list that holds the finalizer at most once loses
\* it and keeps the rest in order; of two occurrences next to each other
\* before another entry one is left; an occurrence the range meets after
\* the list has become shorter than its index makes the slice expression
\* panic.
C25_RemovesOne ==
    probe.op = "RemoveFinalizer" /\ Occurrences(probe.fin, probe.arg[1]) <= 1 =>
        /\ ~probe.out.panic
        /\ probe.out.f = Without(probe.fin, probe.arg[1])

C25_Panicked ==
    /\ probe.op = "RemoveFinalizer"
    /\ probe.fin = <<FinalizerName, FinalizerName>>
    /\ probe.out.panic

C25_LeftOne ==
    /\ probe.op = "RemoveFinalizer"
    /\ probe.fin = <<FinalizerName, FinalizerName, OtherFinalizer>>
    /\ probe.arg = <<FinalizerName>>
    /\ ~probe.out.panic
    /\ probe.out.f = <<FinalizerName, OtherFinalizer>>

\* C26 as the specification states it: removing k after adding {k: v}
\* yields the annotations the object had, whatever they were.
C26_RoundTripAlways ==
    probe.op = "AddRemoveAnnotations" => probe.out = probe.ann

(***************************************************************************)
(* C26  Annotation round trip.  RemoveAnnotations(o, k) after              *)
(* AddAnnotations(o, {k: v}) yields the annotations o had when o did not   *)
(* hold k; when o held k, whatever its value, the result is the            *)
(* annotations o had without k.                                            *)
(***************************************************************************)
C26_RoundTrip ==
    probe.op = "AddRemoveAnnotations" =>
        LET k == probe.arg[1]
        IN  /\ k \notin DOMAIN probe.ann => probe.out = probe.ann
            /\ k \in DOMAIN probe.ann =>
                  /\ k \notin DOMAIN probe.out
                  /\ DOMAIN probe.out = DOMAIN probe.ann \ {k}
                  /\ \A x \in DOMAIN probe.out : probe.out[x] = probe.ann[x]

\* The round trip was made with a key the object did not hold, on an
\* object that holds other annotations.
C26_Witness ==
    /\ probe.op = "AddRemoveAnnotations"
    /\ probe.arg[1] \notin DOMAIN probe.ann
    /\ probe.ann # NoAnnotations
    /\ probe.out = probe.ann

\* How often the probed object holds the finalizer of the manager.
Held == Occurrences(probe.fin, FinalizerName)

\* AddFinalizer of the manager did what the claim says.
C27_Added ==
    LET r == probe.out
    IN  IF Held > 0
        THEN r.updates = 0 /\ r.err = "nil" /\ r.obj.fin = probe.fin
        ELSE /\ r.obj.fin = Append(probe.fin, FinalizerName)
             /\ r.updates = 1
             /\ r.err = probe.arg[1]
             /\ r.err # "nil" => r.msg = errUpdateObject

\* RemoveFinalizer of the manager did what the claim says.
C27_Removed ==
    LET r == probe.out
    IN  IF Held = 0
        THEN r.updates = 0 /\ r.err = "nil" /\ r.obj.fin = probe.fin
        ELSE /\ ~r.panic
             /\ r.obj.fin = Without(probe.fin, FinalizerName)
             /\ r.updates = 1
             /\ r.err = (IF probe.arg[1] = "notfound" THEN "nil" ELSE probe.arg[1])
             /\ r.err # "nil" => r.msg = errUpdateObject

(***************************************************************************)
(* C27  Finalizer manager idempotence.  APIFinalizer.AddFinalizer makes no *)
(* Update and returns nil when the finalizer is present, and otherwise     *)
(* appends it once and makes one Update, whose error it returns wrapped.   *)
(* APIFinalizer.RemoveFinalizer makes no Update when the finalizer is      *)
(* absent; otherwise it removes the finalizer and makes one Update,        *)
(* returns nil when that Update fails with not-found and returns every     *)
(* other error of the Update wrapped.                                      *)
(***************************************************************************)
C27_Idempotent ==
    /\ probe.op = "APIFinalizer.AddFinalizer" => C27_Added
    /\ probe.op = "APIFinalizer.RemoveFinalizer" => C27_Removed

\* RemoveFinalizer met not-found from the Update that carried the list
\* without the finalizer, and returned nil.
C27_Witness ==
    /\ probe.op = "APIFinalizer.RemoveFinalizer"
    /\ probe.arg = <<"notfound">>
    /\ Held = 1
    /\ probe.out.updates = 1
    /\ probe.out.err = "nil"

\* What the code does: the claim holds on every object that holds the
\* finalizer at most once.
C27_IdempotentOnce ==
    Held <= 1 => C27_Idempotent

\* On an object that holds the finalizer twice RemoveFinalizer panicked
\* before any Update.
C27_Panicked ==
    /\ probe.op = "APIFinalizer.RemoveFinalizer"
    /\ Held = 2
    /\ probe.out.panic
    /\ probe.out.updates = 0

(***************************************************************************)
(* C28  UpdateCriticalAnnotations                                          *)
(***************************************************************************)
Attempts == SelectSeq(calls, LAMBDA c : c.op = "Attempt")

LastCall == calls[Len(calls)]

\* The attempts made so far follow retry.OnError(DefaultRetry, IsAPIError).
C28_Attempts ==
    /\ Len(Attempts) <= RetrySteps
    /\ \A i \in 1..(Len(Attempts) - 1) : IsAPIError(Attempts[i].err)
    /\ (pc = "updater" /\ calls # << >>) =>
          /\ LastCall.op = "Attempt"
          /\ IsAPIError(LastCall.err)
          /\ Len(Attempts) < RetrySteps
    /\ pc = "returned" =>
          /\ Len(calls) = Len(Attempts) + 1
          /\ LastCall.op = "UpdateCriticalAnnotations"
          /\ LastCall.err = Attempts[Len(Attempts)].err
          /\ result.err = LastCall.err
          /\ LastCall.arg = IF LastCall.err = "nil" THEN "" ELSE errUpdateCriticalAnnotations
          /\ IsAPIError(LastCall.err) => Len(Attempts) = RetrySteps

\* What one attempt does to the server and to the caller's object.
C28_Step ==
    calls' # calls =>
        LET attempt == calls'[Len(calls) + 1]
        IN  /\ attempt.op = "Attempt"
            /\ captured = entry.ann
            /\ IF attempt.err = "nil"
               THEN /\ srv'.ann = AddAnnotations(srv.ann, entry.ann)
                    /\ srv'.fin = srv.fin
                    /\ srv'.deleted = srv.deleted
                    /\ mg'.ann = srv'.ann
                    /\ mg'.fin = srv.fin
                    /\ mg'.cond = NoConditions
                    /\ pc' = "returned"
               ELSE srv' = srv

\* C28: each attempt reads the latest object, upserts the annotations captured
\* at call entry and updates; a successful attempt stores the server's latest
\* annotations overridden by the captured ones and leaves the caller with the
\* server's other metadata and status; only a Kubernetes API error is
\* retried, at most RetrySteps (5) attempts are made, and the last error is
\* returned wrapped with errUpdateCriticalAnnotations.
C28_Updater == []C28_Attempts /\ [][C28_Step]_vars

\* Five attempts failed with API errors while another client wrote the
\* object, and the call returned the last error, wrapped.
C28_Witness ==
    /\ pc = "returned"
    /\ Len(Attempts) = RetrySteps
    /\ IsAPIError(result.err)
    /\ LastCall.arg = errUpdateCriticalAnnotations
    /\ writes > 0

\* A later attempt succeeded on an object another client had changed since the
\* call began, and the caller's pending condition and finalizers are gone.
C28_Merged ==
    /\ pc = "returned"
    /\ result.err = "nil"
    /\ Len(Attempts) > 1
    /\ writes > 0
    /\ IsPaused(srv.ann)
    /\ mg.fin # entry.fin
    /\ mg.cond # entry.cond

(***************************************************************************)
(* C29  The Create failure path                                            *)
(***************************************************************************)
CallsOf(op) == {i \in DOMAIN calls : calls[i].op = op}

\* Client.Create of this pass returned an error other than a conflict.
CreateFailed ==
    \E i \in CallsOf("Create") : calls[i].err \notin {"nil", "conflict"}

\* Client.Create succeeded and UpdateCriticalAnnotations then failed.
AnnotationsFailed ==
    /\ \E i \in CallsOf("Create") : calls[i].err = "nil"
    /\ \E i \in CallsOf("UpdateCriticalAnnotations") : calls[i].err # "nil"

\* C29: a pass whose Client.Create failed with a non-conflict error sets
\* external-create-failed, calls UpdateCriticalAnnotations once and, whatever
\* that call returns, ends with Creating and ReconcileError(errReconcileCreate),
\* a status update and Requeue=true; a pass whose Create succeeded and whose
\* UpdateCriticalAnnotations failed ends with Creating and
\* ReconcileError(errUpdateManagedAnnotations), a status update and
\* Requeue=true.
C29_CreateFailurePath ==
    /\ (pc \in {"markFailed", "status", "disconnect", "done"} /\ CreateFailed) =>
          \E i \in CallsOf("Create") :
              /\ CallsOf("Create") = {i}
              /\ CallsOf("SetExternalCreateFailed") = {i + 1}
              /\ CallsOf("SetExternalCreateSucceeded") = { }
              /\ GetAnnotation(captured, AnnotationKeyExternalCreateFailed) = calls[i + 1].arg
              /\ pc = "markFailed" => CallsOf("UpdateCriticalAnnotations") = { }
              /\ pc # "markFailed" =>
                    /\ CallsOf("UpdateCriticalAnnotations") = {i + 2}
                    /\ mg.cond.Ready = Creating
                    /\ mg.cond.Synced = ReconcileError(errReconcileCreate)
                    /\ pc = "status" => ret.requeue /\ CallsOf("StatusUpdate") = { }
                    /\ pc # "status" => result.requeue /\ CallsOf("StatusUpdate") = {i + 3}
    /\ (pc \in {"status", "disconnect", "done"} /\ AnnotationsFailed) =>
          \E i \in CallsOf("Create") :
              /\ CallsOf("UpdateCriticalAnnotations") = {i + 2}
              /\ mg.cond.Ready = Creating
              /\ mg.cond.Synced = ReconcileError(errUpdateManagedAnnotations)
              /\ pc = "status" => ret.requeue /\ CallsOf("StatusUpdate") = { }
              /\ pc # "status" => result.requeue /\ CallsOf("StatusUpdate") = {i + 3}

\* Create failed, the annotation update failed too, and the pass returned
\* reporting the failed Create.
C29_Witness ==
    /\ pc = "done"
    /\ CreateFailed
    /\ \E i \in CallsOf("UpdateCriticalAnnotations") : calls[i].err # "nil"
    /\ mg.cond.Synced = ReconcileError(errReconcileCreate)
    /\ result.requeue

\* Create succeeded, the annotation update failed, and the pass returned.
C29_AnnotationsFailed ==
    /\ pc = "done"
    /\ AnnotationsFailed
    /\ mg.cond.Synced = ReconcileError(errUpdateManagedAnnotations)

(***************************************************************************)
(* C30  The steady state                                                   *)
(***************************************************************************)
Succeeded(op) == \E i \in CallsOf(op) : calls[i].err = "nil"

\* The pass has ended, or only its status update is left.
Ended == pc \in {"status", "disconnect", "done"}

\* Observe of this pass reported an existing external resource for an object
\* that is not being deleted.
ObservedExisting == Succeeded("Observe") /\ obs.exists /\ ~mg.deleted

\* The pass got as far as reconciler.go 799: the finalizer was added and the
\* late-initialised object, if any, was stored.
SteadyState ==
    /\ ObservedExisting
    /\ Succeeded("AddFinalizer")
    /\ obs.lateInit => Succeeded("UpdateLateInit")

ResultOfPass == IF pc = "status" THEN [requeue |-> ret.requeue, after |-> ret.after]
                ELSE [requeue |-> result.requeue, after |-> result.after]

UpdateIffNeeded == Called("Update") <=> (~obs.upToDate /\ ShouldUpdate(mg.ann))

SteadyOutcome ==
    IF obs.upToDate \/ ~ShouldUpdate(mg.ann) \/ Succeeded("Update")
    THEN /\ mg.cond.Synced = ReconcileSuccess
         /\ ResultOfPass = [requeue |-> FALSE, after |-> defaultpollInterval]
    ELSE /\ mg.cond.Synced = ReconcileError(errReconcileUpdate)
         /\ ResultOfPass.requeue

\* C30, for the passes that reach the steady state: Client.Update is called
\* if and only if the resource is not up to date and the policy permits
\* update; an up-to-date resource, a denied update and a successful Update end
\* with ReconcileSuccess, Requeue=false and RequeueAfter the poll interval; a
\* failed Update ends with ReconcileError(errReconcileUpdate) and Requeue=true.
C30_SteadyState == (Ended /\ SteadyState) => (UpdateIffNeeded /\ SteadyOutcome)

\* A pass that had to update, called Client.Update once, failed and asks to be
\* requeued.
C30_Witness ==
    /\ pc = "done"
    /\ SteadyState
    /\ ~obs.upToDate
    /\ Cardinality(CallsOf("Update")) = 1
    /\ mg.cond.Synced = ReconcileError(errReconcileUpdate)
    /\ result.requeue

\* A pass of an object whose policy denies update ends in success without
\* Client.Update.
C30_Denied ==
    /\ pc = "done"
    /\ SteadyState
    /\ ~obs.upToDate
    /\ ~ShouldUpdate(mg.ann)
    /\ ~Called("Update")
    /\ result = [requeue |-> FALSE, after |-> defaultpollInterval, err |-> "nil"]

\* C30 as first stated, for every pass whose Observe reported an existing
\* resource of a non-deleted object.
C30_EveryPass == (Ended /\ ObservedExisting) => (UpdateIffNeeded /\ SteadyOutcome)

(***************************************************************************)
(* C31  Guard precedence                                                   *)
(***************************************************************************)
EntryIncomplete == ExternalCreateIncomplete(entry.ann)

\* The pass has gone past the guards that follow Get.
PastGuards == Loaded /\ pc # "loaded"

\* A paused object: nothing but the paused condition and its status update.
C31_PausedFirst ==
    (Loaded /\ EntryPaused) =>
        /\ ~Called("Connect") /\ ~Called("Delete") /\ ~Called("RemoveFinalizer")
        /\ srv.fin = entry.fin
        /\ PastGuards => mg.cond.Synced = ReconcilePaused

\* A deleted object whose deletion is not permitted: RemoveFinalizer is the
\* first call after Get, create-incomplete or not.
C31_OrphanBeforeLeakGuard ==
    (PastGuards /\ ~EntryPaused /\ entry.deleted /\ ~EntryDeletePermitted) =>
        /\ calls[2].op = "RemoveFinalizer"
        /\ ~Called("Connect") /\ ~Called("Delete")
        /\ mg.cond.Synced # ReconcileError(errCreateIncomplete)
        /\ calls[2].err = "nil" => ~FinalizerExists(srv.fin, FinalizerName)

\* A deleted, create-incomplete object whose deletion is permitted: the leak
\* guard returns before Connect.
C31_LeakGuardBeforeDeletion ==
    (Loaded /\ ~EntryPaused /\ entry.deleted /\ EntryDeletePermitted /\ EntryIncomplete) =>
        /\ ~Called("Connect") /\ ~Called("Delete") /\ ~Called("RemoveFinalizer")
        /\ srv.fin = entry.fin
        /\ PastGuards => mg.cond.Synced = ReconcileError(errCreateIncomplete)

\* An observe-only object whose external resource is missing: the error, in
\* the grace window or not.
C31_ObserveOnlyBeforeGrace ==
    (Ended /\ Succeeded("Observe") /\ ~obs.exists /\ ShouldOnlyObserve(mg.ann)) =>
        /\ mg.cond.Synced = ReconcileError(errReconcileObserve)
        /\ pc = "status" \/ Called("StatusUpdate")
        /\ ResultOfPass.requeue

\* C31: the guards of Reconcile apply in order.  A paused object with a
\* deletion timestamp keeps its finalizer and sees no Delete; a deleted object
\* whose deletion is not permitted has its finalizer removed even when it is
\* create-incomplete; a deleted, create-incomplete object whose deletion is
\* permitted sees neither Client.Delete nor RemoveFinalizer; the observe-only
\* error for a missing resource comes before the creation grace check.
C31_GuardPrecedence ==
    /\ C31_PausedFirst
    /\ C31_OrphanBeforeLeakGuard
    /\ C31_LeakGuardBeforeDeletion
    /\ C31_ObserveOnlyBeforeGrace

\* A deleted, create-incomplete object whose deletion is not permitted lost
\* its finalizer.
C31_Witness ==
    /\ pc = "done"
    /\ ~EntryPaused /\ entry.deleted /\ ~EntryDeletePermitted /\ EntryIncomplete
    /\ FinalizerExists(entry.fin, FinalizerName)
    /\ ~FinalizerExists(srv.fin, FinalizerName)

C31_PausedDeleted ==
    /\ pc = "done" /\ Loaded
    /\ EntryPaused /\ entry.deleted /\ EntryDeletePermitted
    /\ FinalizerExists(srv.fin, FinalizerName)

C31_LeakGuarded ==
    /\ pc = "done" /\ Loaded
    /\ ~EntryPaused /\ entry.deleted /\ EntryDeletePermitted /\ EntryIncomplete
    /\ FinalizerExists(srv.fin, FinalizerName)

C31_ObserveOnlyInGrace ==
    /\ pc = "done"
    /\ Succeeded("Observe") /\ ~obs.exists /\ ShouldOnlyObserve(mg.ann)
    /\ ExternalCreateSucceededDuring(mg.ann, GracePeriod, now)
    /\ mg.cond.Synced = ReconcileError(errReconcileObserve)

(***************************************************************************)
(* C32  Deletion converges                                                 *)
(***************************************************************************)
\* The object of this pass: deleted, not paused, deletion permitted, not
\* create-incomplete.
DeletionCase ==
    /\ Loaded
    /\ entry.deleted /\ ~EntryPaused /\ EntryDeletePermitted /\ ~EntryIncomplete

\* The calls of the pass to the API server all succeeded (a Get that finds
\* the object gone is no failure).
APICallsSucceed ==
    \A i \in DOMAIN calls :
        /\ calls[i].op \in {"RemoveFinalizer", "StatusUpdate"} => calls[i].err = "nil"
        /\ calls[i].op = "Get" => calls[i].err \in {"nil", "notfound"}

\* Client.Delete is called in every pass whose Observe reported an existing
\* resource, and that pass asks to be requeued.
C32_DeleteWhileExists ==
    (DeletionCase /\ Ended /\ Succeeded("Observe") /\ obs.exists) =>
        /\ Cardinality(CallsOf("Delete")) = 1
        /\ ~Called("RemoveFinalizer")
        /\ ResultOfPass.requeue

\* Observe reported, outside the grace window, that the resource is gone.
C32_ObservedGone ==
    /\ DeletionCase
    /\ pc = "observed"
    /\ ~obs.exists
    /\ ~CreationGraceCase

\* The pass removed the finalizer and returned Requeue=false without a status
\* update.
C32_Finalized ==
    /\ DeletionCase
    /\ pc = "done"
    /\ Succeeded("RemoveFinalizer")
    /\ ~Called("Delete")
    /\ ~FinalizerExists(srv.fin, FinalizerName)
    /\ ~result.requeue /\ result.after = 0 /\ result.err = "nil"
    /\ ~Called("StatusUpdate")

\* C32: for a deleted, unpaused, not create-incomplete object whose deletion
\* is permitted, under a host that delivers the request again whenever the
\* result asks for it, Client.Delete is called in every pass whose Observe
\* reports an existing resource; and while the API calls succeed, a pass whose
\* Observe reports outside the grace window that the resource is gone removes
\* the finalizer and returns Requeue=false without a status update.
C32_DeletionConverges ==
    /\ []C32_DeleteWhileExists
    /\ []APICallsSucceed => (C32_ObservedGone ~> C32_Finalized)

\* Some time after the first delivery a pass found the resource gone and
\* removed the finalizer.
C32_Witness ==
    /\ C32_Finalized
    /\ now > TicksPerSecond

\* The same convergence without the assumption on the API calls.
C32_Unconditional == C32_ObservedGone ~> C32_Finalized

(***************************************************************************)
(* C33  Crash recovery of Create                                           *)
(***************************************************************************)
\* The pass persisted external-create-pending and has not yet persisted
\* external-create-succeeded or external-create-failed; the server still
\* holds the pending annotation it wrote.
BetweenPendingAndOutcome ==
    /\ pc \in {"create", "markSucceeded", "markFailed"}
    /\ GetAnnotation(srv.ann, AnnotationKeyExternalCreatePending) =
          calls[CHOOSE i \in CallsOf("UpdatePending") : TRUE].arg

LatestOutcome(a) ==
    IF GetExternalCreateFailed(a) > GetExternalCreateSucceeded(a)
    THEN GetExternalCreateFailed(a) ELSE GetExternalCreateSucceeded(a)

\* The pending annotation of the stored object shows the second in which an
\* earlier attempt succeeded or failed.
SameTick ==
    /\ GetExternalCreatePending(srv.ann) # ZeroTime
    /\ GetExternalCreatePending(srv.ann) = LatestOutcome(srv.ann)

\* C33: a pass that stops after the Update that persisted
\* external-create-pending and before the outcome of Create is persisted
\* leaves a create-incomplete object on the server, for every history; and a
\* pass that reads a create-incomplete object does not call Client.Create.
C33_CrashRecovery ==
    /\ BetweenPendingAndOutcome => ExternalCreateIncomplete(srv.ann)
    /\ (Loaded /\ EntryIncomplete) => ~Called("Create")

\* A pass stands between the persisted pending annotation and the outcome of
\* Create, and the stored object is not create-incomplete: its pending
\* timestamp equals the failed timestamp of the attempt before.
C33_Witness ==
    /\ BetweenPendingAndOutcome
    /\ pc = "markSucceeded"
    /\ SameTick
    /\ ~ExternalCreateIncomplete(srv.ann)

\* What the code guarantees: recovery when the pending timestamp falls in a
\* later second than every earlier outcome.
C33_RecoveryInLaterTick ==
    /\ (BetweenPendingAndOutcome /\ ~SameTick) => ExternalCreateIncomplete(srv.ann)
    /\ (Loaded /\ EntryIncomplete) => ~Called("Create")

\* A pass that read an object whose pending timestamp equals its failed
\* timestamp, which is what a stop in the same second leaves behind, called
\* Client.Create.
C33_SameTickRetried ==
    /\ pc = "markSucceeded"
    /\ ~EntryIncomplete
    /\ GetExternalCreatePending(entry.ann) # ZeroTime
    /\ GetExternalCreatePending(entry.ann) = GetExternalCreateFailed(entry.ann)
    /\ GetExternalCreateSucceeded(entry.ann) = ZeroTime

(***************************************************************************)
(* C34  A failed Create does not wedge the object                          *)
(***************************************************************************)
\* Every write of the pass to the API server succeeded.
WritesSucceeded ==
    \A i \in DOMAIN calls :
        calls[i].op \in {"AddFinalizer", "UpdatePending", "UpdateCriticalAnnotations",
                         "StatusUpdate"} => calls[i].err = "nil"

CreateReturned(errs) == \E i \in CallsOf("Create") : calls[i].err \in errs

\* C34: after a pass in which Client.Create returned an error of any kind, a
\* conflict included, and every API write succeeded, the stored object is not
\* create-incomplete.
C34_NeverWedged ==
    (pc = "done" /\ CreateReturned({"conflict", "error"}) /\ WritesSucceeded) =>
        ~ExternalCreateIncomplete(srv.ann)

\* Client.Create returned a conflict, the pass ended with every write done,
\* and the stored object is create-incomplete.
C34_Witness ==
    /\ pc = "done"
    /\ CreateReturned({"conflict"})
    /\ WritesSucceeded
    /\ ExternalCreateIncomplete(srv.ann)
    /\ result = [requeue |-> TRUE, after |-> 0, err |-> "nil"]

\* What the code guarantees: an error other than a conflict is recorded in
\* external-create-failed, and the object is not create-incomplete.
C34_RecordedFailure ==
    (pc = "done" /\ CreateReturned({"error"}) /\ WritesSucceeded) =>
        /\ ~ExternalCreateIncomplete(srv.ann)
        /\ GetExternalCreateFailed(srv.ann) # ZeroTime

\* The next pass of an object left behind by a conflict is stopped by the leak
\* guard.
C34_Wedged ==
    /\ pc = "done"
    /\ EntryIncomplete
    /\ GetExternalCreateFailed(entry.ann) = ZeroTime
    /\ GetExternalCreateSucceeded(entry.ann) = ZeroTime
    /\ mg.cond.Synced = ReconcileError(errCreateIncomplete)
    /\ ~result.requeue

(***************************************************************************)
(* C35  Creation converges                                                 *)
(***************************************************************************)
\* A pass returned RequeueAfter = pollInterval with Synced = ReconcileSuccess,
\* the external resource exists and was created once.
C35_Converged ==
    /\ pc = "done"
    /\ Loaded
    /\ result = [requeue |-> FALSE, after |-> defaultpollInterval, err |-> "nil"]
    /\ mg.cond.Synced = ReconcileSuccess
    /\ world = [exists |-> TRUE, creates |-> 1]

\* Client.Create is called only while the external resource does not exist.
C35_CreateOnce ==
    /\ world.creates <= 1
    /\ world.exists <=> world.creates = 1
    /\ Called("Create") => world.creates = Count("Create")

C35_CreatingPass ==
    (pc = "done" /\ Called("Create")) =>
        /\ result = [requeue |-> TRUE, after |-> 0, err |-> "nil"]
        /\ mg.cond = [Ready |-> Creating, Synced |-> ReconcileSuccess]

(***************************************************************************)
(* C36  One external mutation per pass                                     *)
(***************************************************************************)
Mutations == CallsOf("Create") \cup CallsOf("Update") \cup CallsOf("Delete")

\* C36: a pass calls Connect and Observe at most once each, calls at most one
\* of Client.Create, Client.Update and Client.Delete, at most once and only
\* after an Observe that returned no error; it calls Client.Update only when
\* Observe reported an existing resource and the object has no deletion
\* timestamp; and it issues at most one status update.
C36_OneMutation ==
    /\ Count("Connect") <= 1
    /\ Count("Observe") <= 1
    /\ Cardinality(Mutations) <= 1
    /\ \A m \in Mutations :
          \E i \in CallsOf("Observe") : i < m /\ calls[i].err = "nil"
    /\ Called("Update") => obs.exists /\ ~mg.deleted /\ ~entry.deleted
    /\ Count("StatusUpdate") <= 1

\* A pass that connected, observed, called Client.Update once and wrote the
\* status once.
C36_Witness ==
    /\ pc = "done"
    /\ Count("Connect") = 1 /\ Count("Observe") = 1
    /\ Mutations = CallsOf("Update") /\ Count("Update") = 1
    /\ Count("StatusUpdate") = 1

\* The calls for one request that were forwarded to the inner reconciler
\* without asking the limiter's When: the free passes.
C37_FreePasses(req) ==
    {p \in Callers :
        /\ caller[p].req = req
        /\ caller[p].pc = "forwarded"
        /\ \A i \in DOMAIN caller[p].calls : caller[p].calls[i].op # "When"}

RECURSIVE C37_SumDelays(_, _)
C37_SumDelays(req, ps) ==
    IF ps = {} THEN 0
    ELSE LET p == CHOOSE q \in ps : TRUE
         IN  (IF caller[p].pc # "idle" /\ caller[p].req = req
              THEN caller[p].delays ELSE 0) + C37_SumDelays(req, ps \ {p})

\* The calls for one request that were answered with a positive
\* RequeueAfter.
C37_Delays(req) == C37_SumDelays(req, Callers)

(***************************************************************************)
(* C37  One free pass per delay.  Under any interleaving of concurrent     *)
(* calls of Reconcile for one request, the calls forwarded to the inner    *)
(* reconciler without asking the limiter's When are never more than the    *)
(* calls that were answered with a positive RequeueAfter for that request. *)
(***************************************************************************)
C37_OneFreePassPerDelay ==
    \A req \in Requests : Cardinality(C37_FreePasses(req)) <= C37_Delays(req)

\* Two workers were forwarded without asking When after a single delay: both
\* read the limited set under the read lock before either deleted the item.
C37_Witness ==
    \E req \in Requests :
        /\ C37_Delays(req) = 1
        /\ Cardinality(C37_FreePasses(req)) = 2

\* The part of C37 that holds: a free pass is never given before a delay was
\* answered for the request, and the calls of one worker alone get one free
\* pass per delay.
C37_FreePassAfterDelay ==
    \A req \in Requests :
        /\ C37_FreePasses(req) # {} => C37_Delays(req) >= 1
        /\ \A p \in C37_FreePasses(req) :
               C19_SameItem(p) = {p} => caller[p].delays >= 1

C37_SequentialFreePass ==
    \E p \in Callers :
        /\ p \in C37_FreePasses(caller[p].req)
        /\ Alone(p)
        /\ caller[p].delays = 1
        /\ caller[p].ret.err = ErrBoom

(***************************************************************************)
(* Reading the calls of the dispatcher over the exponential limiter.       *)
(***************************************************************************)
SequentialCalls == caller[SequentialWorker].calls

\* No call of Reconcile came more than 2*maxDelay after the one before.
C38_GapsWithin ==
    \A i \in DOMAIN SequentialCalls :
        i > 1 => SequentialCalls[i].at - SequentialCalls[i - 1].at <= 2 * lcfg.maxDelay

\* The last call of Reconcile has returned.
C38_Returned == caller[SequentialWorker].pc \in {"delayed", "forwarded"}

(***************************************************************************)
(* C38  Dispatcher composed with the exponential timed failure limiter.    *)
(* For one request reconciled sequentially with gaps of no more than       *)
(* 2*maxDelay, the calls of Reconcile alternate between a delayed answer   *)
(* and a forward to the inner reconciler, starting with a delay; the       *)
(* Forget of each forward does not reset the backoff, so the i-th delay is *)
(* min(baseDelay * 2^(i-1), maxDelay); and the item is in the limited set  *)
(* exactly when the most recent call returned a delay.                     *)
(***************************************************************************)
C38_Alternation ==
    C38_GapsWithin =>
        /\ \A i \in DOMAIN SequentialCalls :
               IF i % 2 = 1
               THEN /\ SequentialCalls[i].op = "Delayed"
                    /\ SequentialCalls[i].d =
                           Min(lcfg.baseDelay * Pow2((i - 1) \div 2), lcfg.maxDelay)
               ELSE SequentialCalls[i].op = "Forwarded"
        /\ C38_Returned =>
               (Item(SequentialRequest) \in limited
                    <=> caller[SequentialWorker].pc = "delayed")

\* With baseDelay = 1 and maxDelay = 5 and no time passing, the delays were
\* 1, 2, 4, 5, 5; the When whose product is 2^(DurationBits-1) overflowed and returned the smallest
\* Duration, the item was inserted and the call was forwarded all the same:
\* the last call was a forward and the item is in the limited set.
C38_Witness ==
    /\ C38_GapsWithin
    /\ lcfg.baseDelay = 1
    /\ Len(SequentialCalls) = 2 * DurationBits - 1
    /\ SequentialCalls[2 * DurationBits - 1].op = "Forwarded"
    /\ SequentialCalls[2 * DurationBits - 1].d = MinDuration
    /\ caller[SequentialWorker].pc = "forwarded"
    /\ Item(SequentialRequest) \in limited

\* The call after that is let through as a returning request: two forwards
\* in a row.
C38_TwoForwards ==
    /\ C38_GapsWithin
    /\ Len(SequentialCalls) = 2 * DurationBits
    /\ SequentialCalls[2 * DurationBits - 1].d = MinDuration
    /\ SequentialCalls[2 * DurationBits].op = "Forwarded"
    /\ SequentialCalls[2 * DurationBits].limited

\* A forward at 2*maxDelay after the delay, and the call after it: When
\* finds the entry idle, returns 0, and the call is forwarded with no delay
\* before it.
C38_IdleForward ==
    /\ C38_GapsWithin
    /\ lcfg.baseDelay = 1
    /\ Len(SequentialCalls) = 3
    /\ SequentialCalls[3].op = "Forwarded"
    /\ ~SequentialCalls[3].limited
    /\ SequentialCalls[3].d = 0

\* What holds of C38: while baseDelay is not above maxDelay, the calls of
\* When were never more than 2*maxDelay apart, and every delay so far was
\* positive, the calls alternate, the delays follow the schedule and the
\* limited set holds the item exactly after a delay.
C38_InRange ==
    /\ lcfg.baseDelay <= lcfg.maxDelay
    /\ Consecutive(Item(SequentialRequest))
    /\ \A i \in DOMAIN History(Item(SequentialRequest)).delays :
           History(Item(SequentialRequest)).delays[i] > 0

C38_AlternationInRange ==
    C38_InRange =>
        /\ \A i \in DOMAIN SequentialCalls :
               IF i % 2 = 1
               THEN /\ SequentialCalls[i].op = "Delayed"
                    /\ SequentialCalls[i].d =
                           Min(lcfg.baseDelay * Pow2((i - 1) \div 2), lcfg.maxDelay)
               ELSE SequentialCalls[i].op = "Forwarded" /\ SequentialCalls[i].limited
        /\ C38_Returned =>
               (Item(SequentialRequest) \in limited
                    <=> caller[SequentialWorker].pc = "delayed")

\* Four delays of the schedule 3, 5, 5, 5 with a forward after each.
C38_Scheduled ==
    /\ C38_InRange
    /\ lcfg.baseDelay = 3
    /\ Len(SequentialCalls) = 8
    /\ caller[SequentialWorker].delays = 4
    /\ Item(SequentialRequest) \notin limited

(***************************************************************************)
(* C39  Every delay the exponential timed failure limiter's When returns   *)
(* is at most maxDelay, for every item, every history of calls and every   *)
(* configuration of baseDelay and maxDelay, baseDelay above maxDelay       *)
(* included.                                                               *)
(***************************************************************************)
C39_AtMostMaxDelay ==
    \A item \in Items :
        \A i \in DOMAIN History(item).delays :
            History(item).delays[i] <= lcfg.maxDelay

\* With baseDelay above maxDelay the first When of an item returned
\* baseDelay, and the second, which is computed, returned maxDelay.
C39_Witness ==
    \E item \in Items :
        /\ lcfg.baseDelay > lcfg.maxDelay
        /\ Len(History(item).delays) = 2
        /\ History(item).delays[1] = lcfg.baseDelay
        /\ History(item).delays[2] = lcfg.maxDelay

\* What holds of C39: a delay above maxDelay is baseDelay, returned for an
\* item that had no entry; with baseDelay at most maxDelay there is none.
C39_Step ==
    \A item \in Items :
        WhenCalled(item) /\ Answer(item) > lcfg.maxDelay =>
            /\ item \notin DOMAIN failures
            /\ Answer(item) = lcfg.baseDelay

C39_OnlyFirstUnclamped ==
    /\ [](lcfg.baseDelay <= lcfg.maxDelay => C39_AtMostMaxDelay)
    /\ [][C39_Step]_vars

\* The schedule 3, 5, 5 of a configuration with baseDelay below maxDelay.
C39_Clamped ==
    \E item \in Items :
        /\ lcfg.baseDelay = 3
        /\ History(item).delays = <<3, 5, 5>>

\* This step is an attempt of the updater that stored the object.
C40_Stored ==
    /\ Len(calls') > Len(calls)
    /\ calls'[Len(calls) + 1].op = "Attempt"
    /\ calls'[Len(calls) + 1].err = "nil"

\* The annotation keys on either side of the update.
C40_Keys == DOMAIN captured \cup DOMAIN srv.ann \cup DOMAIN srv'.ann

C40_Step ==
    C40_Stored =>
        \A k \in C40_Keys :
            IF k \in DOMAIN captured
            THEN GetAnnotation(srv'.ann, k) = captured[k] /\ k \in DOMAIN srv'.ann
            ELSE /\ k \in DOMAIN srv'.ann <=> k \in DOMAIN srv.ann
                 /\ GetAnnotation(srv'.ann, k) = GetAnnotation(srv.ann, k)

(***************************************************************************)
(* C40  Critical-annotation update against a concurrent writer.  When      *)
(* another actor has changed or removed an annotation on the server after  *)
(* the reconciler read the object and before UpdateCriticalAnnotations     *)
(* runs, a successful UpdateCriticalAnnotations leaves every key the       *)
(* reconciler held on the server with the value the reconciler captured,   *)
(* and leaves the keys the reconciler never held with the other actor's    *)
(* value.                                                                  *)
(***************************************************************************)
C40_CapturedWins == [](captured = entry.ann) /\ [][C40_Step]_vars

\* The reconciler held paused = "false" and no example.org/key; a user
\* paused the object on the server, which held example.org/key = "w", and
\* the update then succeeded: paused is "false" again, the pending time is
\* the captured one, and example.org/key is still "w".
C40_Witness ==
    /\ pc = "returned"
    /\ result.err = "nil"
    /\ writes = 1
    /\ GetAnnotation(captured, AnnotationKeyReconciliationPaused) = "false"
    /\ GetAnnotation(srv.ann, AnnotationKeyReconciliationPaused) = "false"
    /\ srv.ann[AnnotationKeyExternalCreatePending] = captured[AnnotationKeyExternalCreatePending]
    /\ AnnotationKeyOther \notin DOMAIN captured
    /\ GetAnnotation(srv.ann, AnnotationKeyOther) = "w"

\* The server's later external-create-pending time was replaced by the
\* captured, earlier one.
C40_PendingOverwritten ==
    /\ pc = "returned"
    /\ result.err = "nil"
    /\ writes = 0
    /\ GetExternalCreatePending(srv.ann) = TicksPerSecond
    /\ GetExternalCreatePending(captured) = TicksPerSecond

====
